---- MODULE Spec2Model ----
(***************************************************************************)
(* KohakuEngine: the execution engine (ScriptExecutor, GlobalInjector,     *)
(* EntrypointFinder), the configuration source (ConfigGenerator) and the   *)
(* workflows (Sequential, Parallel), modelled as state machines.           *)
(*                                                                         *)
(* Each component has its own specification (SpecExec, SpecRaise,          *)
(* SpecInject, SpecGen, SpecSeq, SpecPar, FairSpecPar, SpecCall, SpecFind, *)
(* SpecLoad, SpecDesc, SpecCli, SpecLf); the variables of the other        *)
(* components stay at their idle values.                                   *)
(***************************************************************************)
EXTENDS Integers, Sequences, FiniteSets, TLC

\* ---------------------------------------------------------------- bounds
\* execute() calls made in one process
MaxRuns == 2
\* keys of the mapping handed to GlobalInjector.inject
MaxKeys == 3
\* values a ConfigGenerator's producer yields before it completes
MaxLen == 3
\* pulls made after the producer's values are used up
MaxExtraPulls == 3
\* scripts of a Sequential workflow
MaxSeqScripts == 2
\* Configs a ConfigGenerator attached to a script of a Sequential workflow yields
MaxSeqLen == 3
\* calls of run() on one Sequential workflow
MaxSeqRuns == 2
\* scripts of a Parallel workflow
MaxParScripts == 2
\* Configs the ConfigGenerator of a Parallel workflow yields
MaxParLen == 3
\* tasks of one Parallel.run
MaxTasks == 4
\* largest max_workers
MaxWorkers == 2
\* positional arguments handed to call_entrypoint
MaxArgs == 2
\* `if` statements in a unit's source
MaxIfs == 1
\* statements in the body of an `if`
MaxStmts == 2
\* Configs in what a config file's config_gen returns
MaxLoadLen == 2
\* executions one command of the CLI is asked to make
MaxCliTasks == 3
MaxLoads == 3

VARIABLES
    \* --- one process running ScriptExecutor
    sys_modules,   \* importable module name -> cached module (sys.modules)
    script,        \* the Script of the current ScriptExecutor
    ex_module,     \* ScriptExecutor._module
    ex_loaded,     \* what _load_module returned in the last execute (before injection)
    ex_config,     \* the config in effect in the last execute
    ex_outcome,    \* how the last execute ended
    ex_runs,       \* execute calls made so far in this process
    \* --- GlobalInjector.inject on one module
    inj_before,    \* the module's attributes before the call
    inj_map,       \* globals_dict, in insertion order
    inj_module,    \* the module's attributes now
    inj_outcome,   \* "not_run", "return" or "ValueError"
    \* --- one ConfigGenerator and its caller
    gen,           \* the ConfigGenerator: its producer (items, pos) and _exhausted
    gen_log,       \* what each pull so far returned or raised, in order
    \* --- one Sequential workflow and the thread that calls run()
    seq_scripts,   \* self.scripts: per script, what its config is
    seq_sub,       \* self.use_subprocess
    seq_gens,      \* the ConfigGenerator objects the scripts refer to
    seq_gens0,     \* seq_gens as it was when run() was called
    seq_pc,        \* "idle", "running" (inside run), "returned", "raised"
    seq_i,         \* the script the loop of run() is at
    seq_active,    \* the executions that have started and not ended
    seq_started,   \* the executions started, in order
    seq_finished,  \* the executions ended, in order, each with how it ended
    seq_results,   \* the list run() builds and returns
    seq_runs,      \* calls of run() so far
    \* --- one Parallel workflow, the thread that calls run(), its executor
    par_scripts,   \* self.scripts
    par_sub,       \* self.use_subprocess
    par_N,         \* self.max_workers
    par_gens,      \* the ConfigGenerator objects the scripts refer to
    par_gens0,     \* par_gens as it was when run() was called
    par_pc,        \* "idle", "submitting", "collecting", "exiting", "returned", "raised"
    par_i,         \* the script the submit loop is at
    par_tasks,     \* the submitted tasks, each with the state of its future
    par_results,   \* results: the tasks whose result was appended, in order
    par_exc,       \* an exception is propagating out of the `with` block
    \* --- one call of EntrypointFinder.call_entrypoint(func, args, kwargs)
    call_params,   \* the declared parameters of func
    call_args,     \* args
    call_kwargs,   \* kwargs
    call_passed,   \* <<>> before the call, then <<call_args, call_kwargs>> as passed to func
    call_outcome,  \* "not_called", "return" or the exception raised
    \* --- one entry-point detection on a loaded unit
    find_tree,     \* the `if` statements of the unit's source, in ast.walk order
    find_module,   \* the loaded module object
    find_is_module,\* the unit is named by an importable identifier
    find_result,   \* <<>> before the detection, then <<what _find_entrypoint returned>>
    \* --- one call of ConfigLoader.load_config(config_path, worker_id)
    load_file,     \* what is at config_path
    load_wid,      \* worker_id: <<>> for None, <<n>> for n
    load_result,   \* <<>> before the call, then <<what load_config did>>
    \* --- one Script(path, entrypoint=...) and one execution of it
    desc_target,   \* the path string and what it names on this machine
    desc_entrypoint, \* the entrypoint argument ("" for None)
    desc_script,   \* <<>> before the construction, then <<the Script, or what was raised>>
    desc_exec,     \* <<>> before the execution, then <<how it ended>>
    \* --- one process of the CLI (kohakuengine.cli.main)
    cli_cmd,       \* the parsed command line
    cli_tasks,     \* per execution the command asks for: does the unit fail
    cli_ran,       \* the executions made, in order: TRUE for one that failed
    cli_exit,      \* <<>> while running, then <<the exit status>>
    \* --- one process loading file-based units (ScriptExecutor._load_file_module)
    lf_content,    \* what the file at script.path holds when it is loaded
    lf_sys,        \* sys.modules, by module name
    lf_sys0,       \* lf_sys as it was when the load in progress (or the last one) began
    lf_pc,         \* "idle", or "exec_module" while the unit's top-level code runs
    lf_context,    \* the module object the load in progress (or the last one) created
    lf_module,     \* self._module: <<>> for None, else <<the module object>>
    lf_ended,      \* how this executor's last load ended: "none", "ok" or "raised"
    lf_loads       \* module objects created so far

varsExec == <<sys_modules, script, ex_module, ex_loaded, ex_config, ex_outcome, ex_runs>>
varsInj == <<inj_before, inj_map, inj_module, inj_outcome>>
varsGen == <<gen, gen_log>>
varsSeq == <<seq_scripts, seq_sub, seq_gens, seq_gens0, seq_pc, seq_i, seq_active,
             seq_started, seq_finished, seq_results, seq_runs>>
varsPar == <<par_scripts, par_sub, par_N, par_gens, par_gens0, par_pc, par_i,
             par_tasks, par_results, par_exc>>
varsCall == <<call_params, call_args, call_kwargs, call_passed, call_outcome>>
varsFind == <<find_tree, find_module, find_is_module, find_result>>
varsLoad == <<load_file, load_wid, load_result>>
varsDesc == <<desc_target, desc_entrypoint, desc_script, desc_exec>>
varsCli == <<cli_cmd, cli_tasks, cli_ran, cli_exit>>
varsLf == <<lf_content, lf_sys, lf_sys0, lf_pc, lf_context, lf_module, lf_ended, lf_loads>>
vars == <<varsExec, varsInj, varsGen, varsSeq, varsPar, varsCall, varsFind, varsLoad, varsDesc, varsCli, varsLf>>

\* what an action of one component leaves alone: the other components
ExecOnly == UNCHANGED <<varsInj, varsGen, varsSeq, varsPar, varsCall, varsFind, varsLoad, varsDesc, varsCli, varsLf>>
InjectOnly == UNCHANGED <<varsExec, varsGen, varsSeq, varsPar, varsCall, varsFind, varsLoad, varsDesc, varsCli, varsLf>>
GenOnly == UNCHANGED <<varsExec, varsInj, varsSeq, varsPar, varsCall, varsFind, varsLoad, varsDesc, varsCli, varsLf>>
SeqOnly == UNCHANGED <<varsExec, varsInj, varsGen, varsPar, varsCall, varsFind, varsLoad, varsDesc, varsCli, varsLf>>
ParOnly == UNCHANGED <<varsExec, varsInj, varsGen, varsSeq, varsCall, varsFind, varsLoad, varsDesc, varsCli, varsLf>>
CallOnly == UNCHANGED <<varsExec, varsInj, varsGen, varsSeq, varsPar, varsFind, varsLoad, varsDesc, varsCli, varsLf>>
FindOnly == UNCHANGED <<varsExec, varsInj, varsGen, varsSeq, varsPar, varsCall, varsLoad, varsDesc, varsCli, varsLf>>
LoadOnly == UNCHANGED <<varsExec, varsInj, varsGen, varsSeq, varsPar, varsCall, varsFind, varsDesc, varsCli, varsLf>>
DescOnly == UNCHANGED <<varsExec, varsInj, varsGen, varsSeq, varsPar, varsCall, varsFind, varsLoad, varsCli, varsLf>>
CliOnly == UNCHANGED <<varsExec, varsInj, varsGen, varsSeq, varsPar, varsCall, varsFind, varsLoad, varsDesc, varsLf>>
LfOnly == UNCHANGED <<varsExec, varsInj, varsGen, varsSeq, varsPar, varsCall, varsFind, varsLoad, varsDesc, varsCli>>

\* ---------------------------------------------------------------- helpers
Range(s) == {s[i] : i \in 1..Len(s)}

\* A Python dict as the sequence of its items, in insertion order. An item of
\* kwargs is <<name, value>>; an item of globals_dict is <<name, kind, v>>:
\* kind "value" binds the number v, kind "callable" binds the function
\* CallableValues[v] (an override may be any object, a function included).
Keys(d) == {d[i][1] : i \in 1..Len(d)}

HasKey(d, k) == k \in Keys(d)

Lookup(d, k) == d[CHOOSE i \in 1..Len(d) : d[i][1] = k][2]

\* namespace ns with name n bound to value v
Bind1(ns, n, v) == [m \in (DOMAIN ns) \cup {n} |-> IF m = n THEN v ELSE ns[m]]

\* function f without the key n
Without(f, n) == [m \in (DOMAIN f) \ {n} |-> f[m]]

EmptyMap == [m \in {} |-> 0]

\* ---------------------------------------------------------------- Config
\* config/base.py: Config(globals_dict, args, kwargs, metadata); None and a
\* ConfigGenerator are the other two values Script.config can hold.
NoConfig == [kind |-> "None", globals_dict |-> <<>>, args |-> <<>>, kwargs |-> <<>>]

Config(g, a, k) == [kind |-> "Config", globals_dict |-> g, args |-> a, kwargs |-> k]

GeneratorConfig == [kind |-> "ConfigGenerator", globals_dict |-> <<>>, args |-> <<>>, kwargs |-> <<>>]

\* Python truthiness of a value held in a config slot: None is falsy, a Config
\* (a dataclass without __bool__/__len__) and a ConfigGenerator are truthy.
Truthy(c) == c.kind # "None"

\* ---------------------------------------------------------------- GlobalInjector
PROTECTED_NAMES ==
    {"__name__", "__file__", "__package__", "__loader__", "__spec__",
     "__cached__", "__builtins__", "__doc__"}

\* the functions a Config can carry as override values
CallableValues == <<[params |-> <<>>, body |-> "none"]>>

\* setattr(module, name, value): the attribute is rebound, to a plain value or
\* to a function, whatever it was bound to before.
SetAttr(module, item) ==
    IF item[2] = "callable"
    THEN [module EXCEPT !.ns = Without(module.ns, item[1]),
                        !.funcs = Bind1(module.funcs, item[1], CallableValues[item[3]])]
    ELSE [module EXCEPT !.ns = Bind1(module.ns, item[1], item[3]),
                        !.funcs = Without(module.funcs, item[1])]

\* The loop of GlobalInjector.inject over globals_dict.items(), from item i on:
\* the check and the setattr of one item happen before the next item is looked at.
RECURSIVE InjectFrom(_, _, _)
InjectFrom(module, globals_dict, i) ==
    IF i > Len(globals_dict) THEN [module |-> module, exc |-> ""]
    ELSE IF globals_dict[i][1] \in PROTECTED_NAMES
         THEN [module |-> module, exc |-> "ValueError"]
         ELSE InjectFrom(SetAttr(module, globals_dict[i]), globals_dict, i + 1)

Inject(module, globals_dict) == InjectFrom(module, globals_dict, 1)

\* ---------------------------------------------------------------- EntrypointFinder.call_entrypoint
\* A declared parameter: inspect.Parameter(name, kind, default).
Param(name, kind, has_default, default) ==
    [name |-> name, kind |-> kind, has_default |-> has_default, default |-> default]

ParamNames(params) == {params[i].name : i \in 1..Len(params)}

HasVarPositional(params) == \E i \in 1..Len(params) : params[i].kind = "VAR_POSITIONAL"

HasVarKeyword(params) == \E i \in 1..Len(params) : params[i].kind = "VAR_KEYWORD"

\* call_args = args if (has_var_positional or len(params) > 0) else []
CallArgs(params, args) ==
    IF HasVarPositional(params) \/ Len(params) > 0 THEN args ELSE <<>>

\* the keyword arguments passed on unfiltered
CallKwargsAll(params, kwargs) == kwargs

\* call_kwargs = kwargs if has_var_keyword else {k: v for k, v in kwargs.items() if k in params}
CallKwargs(params, kwargs) ==
    IF HasVarKeyword(params) THEN kwargs
    ELSE SelectSeq(kwargs, LAMBDA kv : kv[1] \in ParamNames(params))

\* Python's binding of func(*args, **kwargs) to the declared parameters:
\* [ok |-> FALSE] is the TypeError Python raises before the body runs.
BindCall(params, args, kwargs) ==
    LET pos == SelectSeq(params, LAMBDA p : p.kind = "POSITIONAL_OR_KEYWORD")
        kwo == SelectSeq(params, LAMBDA p : p.kind = "KEYWORD_ONLY")
        named == pos \o kwo
        nbound == IF Len(args) < Len(pos) THEN Len(args) ELSE Len(pos)
        byPos == {pos[i].name : i \in 1..nbound}
        tooMany == Len(args) > Len(pos) /\ ~HasVarPositional(params)
        twice == \E i \in 1..Len(kwargs) : kwargs[i][1] \in byPos
        unexpected == \E i \in 1..Len(kwargs) :
                          /\ kwargs[i][1] \notin ParamNames(named)
                          /\ ~HasVarKeyword(params)
        missing == \E i \in 1..Len(named) :
                       /\ named[i].name \notin byPos
                       /\ ~HasKey(kwargs, named[i].name)
                       /\ ~named[i].has_default
        value(n) == IF n \in byPos
                    THEN args[CHOOSE i \in 1..nbound : pos[i].name = n]
                    ELSE IF HasKey(kwargs, n) THEN Lookup(kwargs, n)
                    ELSE (CHOOSE p \in Range(named) : p.name = n).default
    IN IF tooMany \/ twice \/ unexpected \/ missing
       THEN [ok |-> FALSE, vals |-> EmptyMap]
       ELSE [ok |-> TRUE, vals |-> [n \in ParamNames(named) |-> value(n)]]

\* The bodies of the entry operations of the units below. A body reads and
\* writes the module's globals (module.ns) and its bound parameters (vals).
\* A return value is <<v>>, None is <<>>.
Returns == ("trained" :> 1) @@ ("evaluated" :> 2) @@ ("main" :> 3)

RunBody(body, module, vals) ==
    LET ran == [module EXCEPT !.calls = @ + 1]
    IN CASE body \in DOMAIN Returns ->
              \* return "trained" / "evaluated" / "main"
              [module |-> ran, value |-> <<Returns[body]>>, exc |-> ""]
         [] body = "count" ->
              \* global execution_count; execution_count += 1; return execution_count
              IF "execution_count" \in DOMAIN module.ns
              THEN [module |-> [ran EXCEPT !.ns["execution_count"] = @ + 1],
                    value |-> <<module.ns["execution_count"] + 1>>, exc |-> ""]
              ELSE [module |-> ran, value |-> <<>>, exc |-> "NameError"]
         [] body = "add" ->
              \* return x + y
              [module |-> ran, value |-> <<vals["x"] + vals["y"]>>, exc |-> ""]
         [] body = "raise" ->
              \* raise RuntimeError("Oops")
              [module |-> ran, value |-> <<>>, exc |-> "RuntimeError:Oops"]
         [] body = "async_raise" ->
              \* the body of a coroutine function: raise ValueError("Async error")
              [module |-> ran, value |-> <<>>, exc |-> "ValueError:Async error"]
         [] OTHER ->
              [module |-> ran, value |-> <<>>, exc |-> ""]

\* func(*call_args, **call_kwargs), asyncio.run(...) of it for a coroutine function
Invoke(module, func, args, kwargs) ==
    LET b == BindCall(func.params, args, kwargs)
    IN IF b.ok THEN RunBody(func.body, module, b.vals)
       ELSE [module |-> module, value |-> <<>>, exc |-> "TypeError"]

\* call_entrypoint with the keyword arguments dropped instead of filtered
CallEntrypointNoKwargs(module, func, args, kwargs) ==
    Invoke(module, func, CallArgs(func.params, args), <<>>)

CallEntrypoint(module, func, args, kwargs) ==
    Invoke(module, func, CallArgs(func.params, args), CallKwargs(func.params, kwargs))

\* ---------------------------------------------------------------- units
\* An executable unit, by what running its source does:
\*   top        the globals its top-level code binds
\*   funcs      the functions it defines (signature and body)
\*   guard      "" when there is no `if __name__ == "__main__":` block, else the
\*              bare name its body calls, with guard_args the arguments there
\*   is_module  it is named by an importable identifier, not by a file path
Func(params, body) == [params |-> params, body |-> body]

NoFuncs == [f \in {} |-> Func(<<>>, "")]

\* tests/test_engine/test_executor.py, test_executor_no_double_execution
CountScript ==
    [name |-> "count_script", is_module |-> FALSE,
     top |-> [n \in {"execution_count"} |-> 0],
     funcs |-> [f \in {"main"} |-> Func(<<>>, "count")],
     guard |-> "main", guard_args |-> <<>>]

\* the same source, reached as an importable module
CountModule == [CountScript EXCEPT !.name = "count_mod", !.is_module = TRUE]

\* tests/test_engine/test_executor.py, test_executor_no_entrypoint: `x = 10`
NoEntryScript ==
    [name |-> "no_entry", is_module |-> FALSE,
     top |-> [n \in {"x"} |-> 10],
     funcs |-> NoFuncs,
     guard |-> "", guard_args |-> <<>>]

\* tests/conftest.py, script_with_args: def main(x, y=10): return x + y
ArgsScript ==
    [name |-> "args_script", is_module |-> FALSE,
     top |-> EmptyMap,
     funcs |-> [f \in {"main"} |->
                  Func(<<Param("x", "POSITIONAL_OR_KEYWORD", FALSE, 0),
                         Param("y", "POSITIONAL_OR_KEYWORD", TRUE, 10)>>, "add")],
     guard |-> "main", guard_args |-> <<5>>]

\* tests/test_cli.py, test_workflow_sequential_script_error: main raises
RaiseScript ==
    [name |-> "script", is_module |-> FALSE,
     top |-> EmptyMap,
     funcs |-> [f \in {"main"} |-> Func(<<>>, "raise")],
     guard |-> "main", guard_args |-> <<>>]

\* tests/test_engine/test_executor.py, test_executor_explicit_entrypoint:
\* train, evaluate and main, the guard calling main
MultiEntryScript ==
    [name |-> "multi_entry", is_module |-> FALSE,
     top |-> EmptyMap,
     funcs |-> [f \in {"train", "evaluate", "main"} |->
                  Func(<<>>, CASE f = "train" -> "trained"
                               [] f = "evaluate" -> "evaluated"
                               [] OTHER -> "main")],
     guard |-> "main", guard_args |-> <<>>]

Units == {CountScript, CountModule, NoEntryScript, ArgsScript, RaiseScript, MultiEntryScript}

\* async def main(): raise ValueError("Async error"), the guard calling
\* asyncio.run(main())
AsyncRaiseScript ==
    [name |-> "async_script", is_module |-> FALSE,
     top |-> EmptyMap,
     funcs |-> [f \in {"main"} |-> Func(<<>>, "async_raise")],
     guard |-> "main", guard_args |-> <<>>]

\* the raising source, reached as an importable module
RaiseModule == [RaiseScript EXCEPT !.name = "raise_mod", !.is_module = TRUE]

\* the units whose entry operation raises
RaisingUnits == {RaiseScript, AsyncRaiseScript, RaiseModule}

\* ---------------------------------------------------------------- ScriptExecutor
\* A module object: its __name__, its globals, its functions, and how many
\* times a function body of it has run since it was created.
NoModule == [name |-> <<>>, ns |-> EmptyMap, funcs |-> NoFuncs, calls |-> 0]

MainName == <<"__main__">>

\* a loader that runs the unit as the top-level program
FileModuleNameMain(s) == MainName

\* module_name = f"_kohaku_script_{self.script.name}_{id(self)}"
FileModuleName(s) == <<"_kohaku_script_", s.unit.name, "id(self)">>

\* spec.loader.exec_module(module): the unit's top-level code runs with
\* __name__ = name; the guard's body runs only if that is "__main__".
ExecModule(unit, name) ==
    LET fresh == [name |-> name, ns |-> unit.top, funcs |-> unit.funcs, calls |-> 0]
    IN IF name = MainName /\ unit.guard # ""
       THEN LET r == Invoke(fresh, unit.funcs[unit.guard], unit.guard_args, <<>>)
            IN [module |-> r.module, exc |-> r.exc]
       ELSE [module |-> fresh, exc |-> ""]

\* _load_file_module: a new module object on every call; its entry in
\* sys.modules is removed again before the call ends.
LoadFileModule(s, sysm) ==
    LET r == ExecModule(s.unit, FileModuleName(s))
    IN [module |-> r.module, exc |-> r.exc, sysm |-> sysm]

\* _load_importable_module: importlib.import_module returns the module object
\* cached in sys.modules when there is one, and imports (and caches) it otherwise.
LoadImportableModule(s, sysm) ==
    IF s.unit.name \in DOMAIN sysm
    THEN [module |-> sysm[s.unit.name], exc |-> "", sysm |-> sysm]
    ELSE LET r == ExecModule(s.unit, <<s.unit.name>>)
         IN [module |-> r.module, exc |-> r.exc,
             sysm |-> IF r.exc = "" THEN Bind1(sysm, s.unit.name, r.module) ELSE sysm]

\* _load_module
LoadModule(s, sysm) ==
    IF s.unit.is_module THEN LoadImportableModule(s, sysm) ELSE LoadFileModule(s, sysm)

\* hasattr(module, name), for the names a unit can be asked for
HasAttr(module, name) ==
    name \in (DOMAIN module.ns) \cup (DOMAIN module.funcs) \cup PROTECTED_NAMES

\* EntrypointFinder.find_entrypoint_for_module: main, if it is callable
FindEntrypointForModule(module) ==
    IF "main" \in DOMAIN module.funcs
    THEN [found |-> TRUE, name |-> "main", exc |-> ""]
    ELSE [found |-> FALSE, name |-> "", exc |-> ""]

\* find_entrypoint without `and hasattr(module, entrypoint_name)`
FindEntrypointInFileUnchecked(module, unit) ==
    IF unit.guard # ""
    THEN [found |-> TRUE, name |-> unit.guard, exc |-> ""]
    ELSE FindEntrypointForModule(module)

\* EntrypointFinder.find_entrypoint: the name the guard's body calls, if the
\* module has that attribute; else main, if it is callable
FindEntrypointInFile(module, unit) ==
    IF unit.guard # "" /\ HasAttr(module, unit.guard)
    THEN [found |-> TRUE, name |-> unit.guard, exc |-> ""]
    ELSE FindEntrypointForModule(module)

\* _find_entrypoint without its `if self.script.entrypoint:` branch
FindEntrypointAuto(s, module) ==
    IF s.unit.is_module THEN FindEntrypointForModule(module)
    ELSE FindEntrypointInFile(module, s.unit)

\* ScriptExecutor._find_entrypoint
FindEntrypoint(s, module) ==
    IF s.entrypoint # ""
    THEN IF HasAttr(module, s.entrypoint)
         THEN [found |-> TRUE, name |-> s.entrypoint, exc |-> ""]
         ELSE [found |-> FALSE, name |-> "", exc |-> "ValueError"]
    ELSE IF s.unit.is_module THEN FindEntrypointForModule(module)
         ELSE FindEntrypointInFile(module, s.unit)

\* EntrypointFinder.call_entrypoint on the attribute found: inspect.signature
\* raises TypeError for an attribute that is not callable.
CallFound(module, name, config) ==
    IF name \in DOMAIN module.funcs
    THEN CallEntrypoint(module, module.funcs[name], config.args, config.kwargs)
    ELSE [module |-> module, value |-> <<>>, exc |-> "TypeError"]

\* `if entrypoint:` a function is truthy, a plain value is unless it is 0
EntryTruthy(module, name) ==
    name \in DOMAIN module.funcs \/ name \notin DOMAIN module.ns \/ module.ns[name] # 0

\* execute without the `if config: raise RuntimeError(...)` of its last branch
NoEntrypointSilent(module, config) ==
    [module |-> module, value |-> <<>>, exc |-> ""]

\* What execute does when no entry operation was found.
NoEntrypoint(module, config) ==
    IF Truthy(config)
    THEN [module |-> module, value |-> <<>>, exc |-> "RuntimeError:No entrypoint found"]
    ELSE [module |-> module, value |-> <<>>, exc |-> ""]

\* How execute ends once the module is loaded: m is the module object as it is
\* then, v the return value, e the exception. self._module is set (stored), and
\* an importable module stays in sys.modules as the same object.
ExecuteEnd(s, ld, config, m, v, e) ==
    [module |-> m, loaded |-> ld.module, stored |-> TRUE,
     config |-> config, value |-> v, exc |-> e,
     sysm |-> IF s.unit.is_module THEN Bind1(ld.sysm, s.unit.name, m) ELSE ld.sysm]

\* execute from `entrypoint = self._find_entrypoint(module)` on
ExecuteEntry(s, ld, config, module) ==
    LET ep == FindEntrypoint(s, module)
        r == IF ep.found /\ EntryTruthy(module, ep.name)
             THEN CallFound(module, ep.name, config)
             ELSE NoEntrypoint(module, config)
    IN IF ep.exc # "" THEN ExecuteEnd(s, ld, config, module, <<>>, ep.exc)
       ELSE ExecuteEnd(s, ld, config, r.module, r.value, r.exc)

\* execute from `if config and config.globals_dict:` on
ExecuteLoaded(s, ld, config) ==
    LET inj == IF Truthy(config) /\ Len(config.globals_dict) > 0
               THEN Inject(ld.module, config.globals_dict)
               ELSE [module |-> ld.module, exc |-> ""]
    IN IF config.kind = "ConfigGenerator"
       THEN ExecuteEnd(s, ld, config, ld.module, <<>>, "AttributeError")
       ELSE IF inj.exc # "" THEN ExecuteEnd(s, ld, config, inj.module, <<>>, inj.exc)
       ELSE ExecuteEntry(s, ld, config, inj.module)

\* config = config or self.script.config
EffectiveConfig(s, cfg) == IF Truthy(cfg) THEN cfg ELSE s.config

\* ScriptExecutor.execute(cfg) for Script s in a process whose sys.modules is
\* sysm. The result names the module object as it is when execute ends
\* (module), as _load_module returned it (loaded), whether self._module was
\* set (stored), the config in effect, and the return value or the exception.
ExecuteResult(s, sysm, cfg) ==
    LET ld == LoadModule(s, sysm)
    IN IF ld.exc # ""
       THEN [module |-> ld.module, loaded |-> ld.module, stored |-> FALSE,
             config |-> EffectiveConfig(s, cfg), value |-> <<>>, exc |-> ld.exc,
             sysm |-> ld.sysm]
       ELSE ExecuteLoaded(s, ld, EffectiveConfig(s, cfg))

\* ---------------------------------------------------------------- SpecExec
\* One process that constructs Scripts and ScriptExecutors and calls execute.
Script(unit, config, entrypoint) ==
    [unit |-> unit, config |-> config, entrypoint |-> entrypoint]

\* the Configs handed to execute or attached to a Script
ExecConfigs ==
    {Config(<<>>, <<>>, <<>>),
     Config(<< <<"x", "value", 5>> >>, <<>>, << <<"y", 20>> >>),
     Config(<<>>, <<5>>, << <<"y", 20>> >>),
     Config(<< <<"execution_count", "value", 5>> >>, <<>>, <<>>),
     Config(<< <<"x", "value", 5>>, <<"__name__", "value", 1>> >>, <<>>, <<>>),
     Config(<< <<"main", "value", 1>> >>, <<>>, <<>>),
     Config(<< <<"main", "callable", 1>> >>, <<>>, <<>>)}

Entrypoints == {"", "main", "evaluate", "missing"}

Scripts ==
    {Script(u, c, e) : u \in Units, c \in ExecConfigs \cup {NoConfig, GeneratorConfig},
                       e \in Entrypoints}

NotRun == [kind |-> "not_run", exc |-> "", value |-> <<>>]

\* execute reporting every failure as its own RuntimeError
OutcomeWrapped(r) ==
    IF r.exc = "" THEN [kind |-> "return", exc |-> "", value |-> r.value]
    ELSE [kind |-> "raise", exc |-> "RuntimeError:execution failed", value |-> <<>>]

Outcome(r) ==
    IF r.exc = "" THEN [kind |-> "return", exc |-> "", value |-> r.value]
    ELSE [kind |-> "raise", exc |-> r.exc, value |-> <<>>]

NoSysModules == [m \in {} |-> NoModule]

\* ScriptExecutor(script): self._module = None
FreshExecutor(s) ==
    /\ script = s
    /\ ex_module = NoModule
    /\ ex_loaded = NoModule
    /\ ex_config = NoConfig
    /\ ex_outcome = NotRun

InitExec ==
    /\ sys_modules = NoSysModules
    /\ ex_runs = 0
    /\ \E s \in Scripts : FreshExecutor(s)

IdleExec ==
    /\ sys_modules = NoSysModules
    /\ ex_runs = 0
    /\ FreshExecutor(Script(NoEntryScript, NoConfig, ""))

\* Script(...) and ScriptExecutor(script): another script, a new executor
NewExecutor(s) ==
    /\ ex_outcome # NotRun
    /\ script' = s
    /\ ex_module' = NoModule
    /\ ex_loaded' = NoModule
    /\ ex_config' = NoConfig
    /\ ex_outcome' = NotRun
    /\ UNCHANGED <<sys_modules, ex_runs>>
    /\ ExecOnly

\* executor.execute(cfg)
Execute(cfg) ==
    /\ ex_runs < MaxRuns
    /\ LET r == ExecuteResult(script, sys_modules, cfg)
       IN /\ sys_modules' = r.sysm
          /\ ex_module' = IF r.stored THEN r.module ELSE ex_module
          /\ ex_loaded' = r.loaded
          /\ ex_config' = r.config
          /\ ex_outcome' = Outcome(r)
    /\ ex_runs' = ex_runs + 1
    /\ UNCHANGED script
    /\ ExecOnly

NextExec ==
    \/ \E s \in Scripts : NewExecutor(s)
    \/ \E cfg \in ExecConfigs \cup {NoConfig} : Execute(cfg)

\* One process executing units whose entry operation raises.
RaisingScripts ==
    {Script(u, c, e) : u \in RaisingUnits, c \in ExecConfigs \cup {NoConfig, GeneratorConfig},
                       e \in Entrypoints}

InitRaise ==
    /\ sys_modules = NoSysModules
    /\ ex_runs = 0
    /\ \E s \in RaisingScripts : FreshExecutor(s)

NextRaise ==
    \/ \E s \in RaisingScripts : NewExecutor(s)
    \/ \E cfg \in ExecConfigs \cup {NoConfig} : Execute(cfg)

\* ---------------------------------------------------------------- SpecInject
\* GlobalInjector.inject(module, globals_dict) on one module and one mapping.
InjectNames == PROTECTED_NAMES \cup {"a", "b"}

\* the mappings of at most MaxKeys distinct names, item i carrying the value i
InjectMaps ==
    {[i \in DOMAIN ks |-> <<ks[i], "value", i>>] :
        ks \in {k \in UNION {[1..n -> InjectNames] : n \in 0..MaxKeys} :
                   \A i, j \in DOMAIN k : i # j => k[i] # k[j]}}

\* a module with no user global, and one that already binds a
InjectModules ==
    {[NoModule EXCEPT !.name = <<"test_module">>],
     [NoModule EXCEPT !.name = <<"test_module">>, !.ns = [n \in {"a"} |-> 0]]}

InitInject ==
    /\ inj_before \in InjectModules
    /\ inj_map \in InjectMaps
    /\ inj_module = inj_before
    /\ inj_outcome = "not_run"

IdleInject ==
    /\ inj_before = NoModule
    /\ inj_map = <<>>
    /\ inj_module = NoModule
    /\ inj_outcome = "not_run"

InjectCall ==
    /\ inj_outcome = "not_run"
    /\ LET r == Inject(inj_module, inj_map)
       IN /\ inj_module' = r.module
          /\ inj_outcome' = IF r.exc = "" THEN "return" ELSE r.exc
    /\ UNCHANGED <<inj_before, inj_map>>
    /\ InjectOnly

NextInject == InjectCall

\* ---------------------------------------------------------------- ConfigGenerator
\* What a producer yields: a Config, named "c1", "c2", ..., or something else.
NotAConfig == "not_a_config"

\* isinstance(config, Config)
IsConfig(x) == x # NotAConfig

\* ConfigGenerator(generator): the producer is a generator or an iterator
\* over `items`, of which `pos` have been taken. A generator keeps raising
\* StopIteration once it has completed; an iterator object need not: one that
\* `restarts` begins again after it has signalled completion.
Producer(items, restarts) ==
    [items |-> items, pos |-> 0, restarts |-> restarts, exhausted |-> FALSE]

ConfigGenerator(items) == Producer(items, FALSE)

\* next(self._generator): the next value, or StopIteration once all are taken
ProducerNext(g) ==
    IF g.pos < Len(g.items)
    THEN [gen |-> [g EXCEPT !.pos = @ + 1], outcome |-> "value", value |-> g.items[g.pos + 1]]
    ELSE [gen |-> [g EXCEPT !.pos = IF g.restarts THEN 0 ELSE @],
          outcome |-> "StopIteration", value |-> ""]

\* __next__ without `self._exhausted = True`
GenNextNoFlag(g) ==
    LET r == ProducerNext(g)
    IN IF g.exhausted THEN [gen |-> g, outcome |-> "StopIteration", value |-> ""]
       ELSE IF r.outcome = "value" /\ ~IsConfig(r.value)
            THEN [gen |-> r.gen, outcome |-> "TypeError", value |-> ""]
            ELSE r

\* __next__ ending the source when the producer yields something else
GenNextEndsOnTypeError(g) ==
    LET r == ProducerNext(g)
    IN IF g.exhausted THEN [gen |-> g, outcome |-> "StopIteration", value |-> ""]
       ELSE IF r.outcome = "StopIteration" \/ ~IsConfig(r.value)
            THEN [gen |-> [r.gen EXCEPT !.exhausted = TRUE],
                  outcome |-> IF r.outcome = "StopIteration" THEN "StopIteration" ELSE "TypeError",
                  value |-> ""]
            ELSE r

\* ConfigGenerator.__next__
GenNext(g) ==
    LET r == ProducerNext(g)
    IN IF g.exhausted THEN [gen |-> g, outcome |-> "StopIteration", value |-> ""]
       ELSE IF r.outcome = "StopIteration"
            THEN [gen |-> [r.gen EXCEPT !.exhausted = TRUE],
                  outcome |-> "StopIteration", value |-> ""]
       ELSE IF ~IsConfig(r.value)
            THEN [gen |-> r.gen, outcome |-> "TypeError", value |-> ""]
            ELSE r

\* ---------------------------------------------------------------- SpecGen
\* A caller pulling from one ConfigGenerator with next().
ProducerItems == {"c1", "c2", NotAConfig}

Producers == UNION {[1..n -> ProducerItems] : n \in 0..MaxLen}

InitGen ==
    /\ gen \in {Producer(items, restarts) : items \in Producers, restarts \in BOOLEAN}
    /\ gen_log = <<>>

IdleGen ==
    /\ gen = ConfigGenerator(<<>>)
    /\ gen_log = <<>>

\* next(gen): the log records the Config returned or the exception raised
Pull ==
    /\ Len(gen_log) < Len(gen.items) + MaxExtraPulls
    /\ LET r == GenNext(gen)
       IN /\ gen' = r.gen
          /\ gen_log' = Append(gen_log, IF r.outcome = "value" THEN r.value ELSE r.outcome)
    /\ GenOnly

NextGen == Pull

\* ---------------------------------------------------------------- Sequential
\* A script of a workflow, by its config: None, a Config, or the
\* ConfigGenerator object number `gen` (two scripts may hold the same object).
WfScript(cfg, g) == [cfg |-> cfg, gen |-> g]

ConfigNames == <<"c1", "c2", "c3", "c4", "c5">>

\* a ConfigGenerator that yields n Configs
SweepOf(n) == ConfigGenerator(SubSeq(ConfigNames, 1, n))

GenIds == {1, 2}

WfScripts == {WfScript("None", 0), WfScript("Config", 0)}
                 \cup {WfScript("ConfigGenerator", g) : g \in GenIds}

\* one execution: script number `script` run with `config` ("" for None)
Execution(i, config) == [script |-> i, config |-> config]

\* the config a script with a fixed config is run with
FixedConfig(entry) == IF entry.cfg = "Config" THEN "c0" ELSE ""

\* what an execution leaves in the results list: in-process the entry
\* operation's return value, in subprocess mode the process object, whose
\* returncode is 0 or not
ResultOf(e, ok) == [script |-> e.script, config |-> e.config, returncode |-> IF ok THEN 0 ELSE 1]

\* results.append(result)
SeqAppend(results, r) == Append(results, r)

\* Control is back in run()'s loop: _run_once returns when executor.execute
\* has returned, or when proc.wait() has (subprocess mode).
SeqNotWaiting(active) == TRUE

SeqJoined(active) == active = {}

InitSeq ==
    /\ seq_scripts \in UNION {[1..n -> WfScripts] : n \in 1..MaxSeqScripts}
    /\ seq_sub \in BOOLEAN
    /\ seq_gens \in [GenIds -> {SweepOf(n) : n \in 0..MaxSeqLen}]
    /\ seq_gens0 = seq_gens
    /\ seq_pc = "idle"
    /\ seq_i = 1
    /\ seq_active = {}
    /\ seq_started = <<>>
    /\ seq_finished = <<>>
    /\ seq_results = <<>>
    /\ seq_runs = 0

IdleSeq ==
    /\ seq_scripts = <<WfScript("None", 0)>>
    /\ seq_sub = FALSE
    /\ seq_gens = [g \in GenIds |-> SweepOf(0)]
    /\ seq_gens0 = seq_gens
    /\ seq_pc = "idle"
    /\ seq_i = 1
    /\ seq_active = {}
    /\ seq_started = <<>>
    /\ seq_finished = <<>>
    /\ seq_results = <<>>
    /\ seq_runs = 0

\* workflow.run() is called, the first time or again after it ended:
\* results = []
SeqRun ==
    /\ seq_pc \in {"idle", "returned", "raised"}
    /\ seq_runs < MaxSeqRuns
    /\ seq_runs' = seq_runs + 1
    /\ seq_pc' = "running"
    /\ seq_i' = 1
    /\ seq_results' = <<>>
    /\ seq_gens0' = seq_gens
    /\ seq_started' = <<>>
    /\ seq_finished' = <<>>
    /\ UNCHANGED <<seq_scripts, seq_sub, seq_gens, seq_active>>
    /\ SeqOnly

SeqAtLoop == seq_pc = "running" /\ SeqJoined(seq_active)

\* _run_once(script, config) begins: executor.execute(config), or Popen(cmd)
SeqBegin(config) ==
    /\ seq_active' = seq_active \cup {Execution(seq_i, config)}
    /\ seq_started' = Append(seq_started, Execution(seq_i, config))

\* the loop reaches a script with a fixed config (or none): _run_once(script, script.config)
SeqStartOnce ==
    /\ SeqAtLoop
    /\ seq_i <= Len(seq_scripts)
    /\ seq_scripts[seq_i].cfg # "ConfigGenerator"
    /\ SeqBegin(FixedConfig(seq_scripts[seq_i]))
    /\ UNCHANGED <<seq_scripts, seq_sub, seq_gens, seq_gens0, seq_pc, seq_i,
                   seq_finished, seq_results, seq_runs>>
    /\ SeqOnly

\* _run_iterative: `for config in config_gen` pulls the next Config and runs
\* it; StopIteration ends the script's loop, any other exception ends run()
SeqPull ==
    /\ SeqAtLoop
    /\ seq_i <= Len(seq_scripts)
    /\ seq_scripts[seq_i].cfg = "ConfigGenerator"
    /\ LET g == seq_scripts[seq_i].gen
           r == GenNext(seq_gens[g])
       IN /\ seq_gens' = [seq_gens EXCEPT ![g] = r.gen]
          /\ IF r.outcome = "value"
             THEN SeqBegin(r.value) /\ UNCHANGED <<seq_pc, seq_i>>
             ELSE /\ UNCHANGED <<seq_active, seq_started>>
                  /\ IF r.outcome = "StopIteration"
                     THEN seq_i' = seq_i + 1 /\ UNCHANGED seq_pc
                     ELSE seq_pc' = "raised" /\ UNCHANGED seq_i
    /\ UNCHANGED <<seq_scripts, seq_sub, seq_gens0, seq_finished, seq_results, seq_runs>>
    /\ SeqOnly

\* An execution ends. In-process, execute returns the entry operation's
\* value, or its exception propagates out of run(). In subprocess mode
\* proc.wait() returns and the process object is the result, whatever its
\* returncode.
SeqEnd(e, ok) ==
    /\ seq_active' = seq_active \ {e}
    /\ seq_finished' = Append(seq_finished, [script |-> e.script, config |-> e.config, ok |-> ok])
    /\ IF ok \/ seq_sub
       THEN /\ seq_results' = SeqAppend(seq_results, ResultOf(e, ok))
            /\ seq_i' = IF seq_scripts[e.script].cfg = "ConfigGenerator"
                        THEN seq_i ELSE seq_i + 1
            /\ UNCHANGED seq_pc
       ELSE /\ seq_pc' = "raised"
            /\ UNCHANGED <<seq_results, seq_i>>
    /\ UNCHANGED <<seq_scripts, seq_sub, seq_gens, seq_gens0, seq_started, seq_runs>>

SeqFinish ==
    /\ seq_pc = "running"
    /\ \E e \in seq_active, ok \in BOOLEAN : SeqEnd(e, ok)
    /\ SeqOnly

\* `return results`
SeqReturn ==
    /\ SeqAtLoop
    /\ seq_i > Len(seq_scripts)
    /\ seq_pc' = "returned"
    /\ UNCHANGED <<seq_scripts, seq_sub, seq_gens, seq_gens0, seq_i, seq_active,
                   seq_started, seq_finished, seq_results, seq_runs>>
    /\ SeqOnly

NextSeq ==
    \/ SeqRun
    \/ SeqStartOnce
    \/ SeqPull
    \/ SeqFinish
    \/ SeqReturn

\* Sequential._run_subprocess: the KOGINE_WORKER_ID in the environment of the
\* child launched for execution e
SeqWorkerId(e) == 0

\* ---------------------------------------------------------------- Parallel
ParGenIds == {1}

ParScripts == {WfScript("None", 0), WfScript("Config", 0)}
                  \cup {WfScript("ConfigGenerator", g) : g \in ParGenIds}

\* every child is launched with the same KOGINE_WORKER_ID
TaskSharedId(i, config, wid, state) == [script |-> i, config |-> config, wid |-> 0, state |-> state]

\* A submitted task and the state of its future: "pending" (queued in the
\* executor), "running", then "exit0" / "exit1" (the child's return code),
\* "spawn_error" (run_task raised: the child could not be launched) or
\* "not_dispatched" (the executor could not hand the call to a worker).
Task(i, config, wid, state) == [script |-> i, config |-> config, wid |-> wid, state |-> state]

TaskDone(t) == t.state \notin {"pending", "running"}

TaskRaises(t) == t.state \in {"spawn_error", "not_dispatched"}

\* a loop that stops after the first Config
PullFirst(g) ==
    LET r == GenNext(g)
    IN IF r.outcome = "value" THEN <<r.value>> ELSE <<>>

RECURSIVE PullAll(_)
\* `for config in script.config`: the Configs pulled until StopIteration
PullAll(g) ==
    LET r == GenNext(g)
    IN IF r.outcome = "value" THEN <<r.value>> \o PullAll(r.gen) ELSE <<>>

RECURSIVE AfterPullAll(_)
\* the generator after that loop
AfterPullAll(g) ==
    LET r == GenNext(g)
    IN IF r.outcome = "value" THEN AfterPullAll(r.gen) ELSE r.gen

RECURSIVE CollectTasks(_, _, _, _)
\* _run_subprocess, "collect all tasks": (script, config, worker_id) per
\* script with a fixed config or none and per Config pulled from a
\* generator, worker_id counting up from `wid`
CollectTasks(scripts, gens, i, wid) ==
    IF i > Len(scripts) THEN <<>>
    ELSE IF scripts[i].cfg = "ConfigGenerator"
         THEN LET g == scripts[i].gen
                  cs == PullAll(gens[g])
              IN [k \in 1..Len(cs) |-> Task(i, cs[k], wid + k - 1, "pending")]
                     \o CollectTasks(scripts, [gens EXCEPT ![g] = AfterPullAll(@)],
                                     i + 1, wid + Len(cs))
         ELSE <<Task(i, FixedConfig(scripts[i]), wid, "pending")>>
                  \o CollectTasks(scripts, gens, i + 1, wid + 1)

RECURSIVE AfterCollect(_, _, _)
\* the generators after the tasks are collected
AfterCollect(scripts, gens, i) ==
    IF i > Len(scripts) THEN gens
    ELSE IF scripts[i].cfg = "ConfigGenerator"
         THEN AfterCollect(scripts, [gens EXCEPT ![scripts[i].gen] = AfterPullAll(@)], i + 1)
         ELSE AfterCollect(scripts, gens, i + 1)

Running(tasks) == {k \in 1..Len(tasks) : tasks[k].state = "running"}

Pending(tasks) == {k \in 1..Len(tasks) : tasks[k].state = "pending"}

Collected(results) == Range(results)

\* a worker thread of ThreadPoolExecutor(max_workers) is free to take a task
WorkerFree(tasks, n) == Cardinality(Running(tasks)) < n

\* leaving `with ...Executor(...) as executor` without waiting
ExecutorExitNoWait(tasks) == TRUE

\* leaving `with ...Executor(...) as executor`: __exit__ is
\* shutdown(wait=True), which returns when every submitted call is done
ExecutorExitReady(tasks) == \A k \in 1..Len(tasks) : TaskDone(tasks[k])

InitPar ==
    /\ par_scripts \in UNION {[1..n -> ParScripts] : n \in 1..MaxParScripts}
    /\ par_sub \in BOOLEAN
    /\ par_N \in 1..MaxWorkers
    /\ par_gens \in [ParGenIds -> {SweepOf(n) : n \in 0..MaxParLen}]
    /\ Len(CollectTasks(par_scripts, par_gens, 1, 0)) <= MaxTasks
    /\ par_gens0 = par_gens
    /\ par_pc = "idle"
    /\ par_i = 1
    /\ par_tasks = <<>>
    /\ par_results = <<>>
    /\ par_exc = FALSE

IdlePar ==
    /\ par_scripts = <<WfScript("None", 0)>>
    /\ par_sub = TRUE
    /\ par_N = 1
    /\ par_gens = [g \in ParGenIds |-> SweepOf(0)]
    /\ par_gens0 = par_gens
    /\ par_pc = "idle"
    /\ par_i = 1
    /\ par_tasks = <<>>
    /\ par_results = <<>>
    /\ par_exc = FALSE

\* run() with use_subprocess: _run_subprocess collects every task, draining
\* the generators, then submits them all to a ThreadPoolExecutor
ParRunSubprocess ==
    /\ par_pc = "idle"
    /\ par_sub
    /\ par_tasks' = CollectTasks(par_scripts, par_gens, 1, 0)
    /\ par_gens' = AfterCollect(par_scripts, par_gens, 1)
    /\ par_gens0' = par_gens
    /\ par_pc' = "collecting"
    /\ UNCHANGED <<par_scripts, par_sub, par_N, par_i, par_results, par_exc>>
    /\ ParOnly

\* run() without use_subprocess: _run_process_pool opens a ProcessPoolExecutor
ParRunPool ==
    /\ par_pc = "idle"
    /\ ~par_sub
    /\ par_gens0' = par_gens
    /\ par_pc' = "submitting"
    /\ UNCHANGED <<par_scripts, par_sub, par_N, par_gens, par_i, par_tasks,
                   par_results, par_exc>>
    /\ ParOnly

\* _run_process_pool's loop: executor.submit(execute_script, script, config)
\* for the script's config, or for the next Config pulled from its generator
ParSubmit ==
    /\ par_pc = "submitting"
    /\ par_i <= Len(par_scripts)
    /\ IF par_scripts[par_i].cfg = "ConfigGenerator"
       THEN LET g == par_scripts[par_i].gen
                r == GenNext(par_gens[g])
            IN /\ par_gens' = [par_gens EXCEPT ![g] = r.gen]
               /\ IF r.outcome = "value"
                  THEN /\ par_tasks' = Append(par_tasks, Task(par_i, r.value, -1, "pending"))
                       /\ UNCHANGED par_i
                  ELSE /\ par_i' = par_i + 1
                       /\ UNCHANGED par_tasks
       ELSE /\ par_tasks' = Append(par_tasks,
                                   Task(par_i, FixedConfig(par_scripts[par_i]), -1, "pending"))
            /\ par_i' = par_i + 1
            /\ UNCHANGED par_gens
    /\ UNCHANGED <<par_scripts, par_sub, par_N, par_gens0, par_pc, par_results, par_exc>>
    /\ ParOnly

\* the submit loop is over: `for future in as_completed(futures)` begins
ParSubmitted ==
    /\ par_pc = "submitting"
    /\ par_i > Len(par_scripts)
    /\ par_pc' = "collecting"
    /\ UNCHANGED <<par_scripts, par_sub, par_N, par_gens, par_gens0, par_i, par_tasks,
                   par_results, par_exc>>
    /\ ParOnly

\* The ProcessPoolExecutor sends a submitted call to its workers by pickling
\* it. execute_script is a function defined inside _run_process_pool, which
\* pickle refuses: the future gets that exception and no worker runs the call.
PoolDispatch ==
    /\ ~par_sub
    /\ \E k \in Pending(par_tasks) :
           par_tasks' = [par_tasks EXCEPT ![k].state = "not_dispatched"]
    /\ UNCHANGED <<par_scripts, par_sub, par_N, par_gens, par_gens0, par_pc, par_i,
                   par_results, par_exc>>
    /\ ParOnly

\* a free worker thread takes the oldest queued task and calls run_task:
\* _spawn_subprocess(script, config, wid)
ParStart ==
    /\ par_sub
    /\ Pending(par_tasks) # {}
    /\ WorkerFree(par_tasks, par_N)
    /\ LET k == CHOOSE j \in Pending(par_tasks) : \A l \in Pending(par_tasks) : j <= l
       IN par_tasks' = [par_tasks EXCEPT ![k].state = "running"]
    /\ UNCHANGED <<par_scripts, par_sub, par_N, par_gens, par_gens0, par_pc, par_i,
                   par_results, par_exc>>
    /\ ParOnly

\* run_task ends: proc.wait() returned with the child's return code, or
\* launching the child raised
ParFinish ==
    /\ \E k \in Running(par_tasks), out \in {"exit0", "exit1", "spawn_error"} :
           par_tasks' = [par_tasks EXCEPT ![k].state = out]
    /\ UNCHANGED <<par_scripts, par_sub, par_N, par_gens, par_gens0, par_pc, par_i,
                   par_results, par_exc>>
    /\ ParOnly

\* as_completed yields a done future; results.append(future.result()), or
\* future.result() raises the call's exception out of the `with` block
ParCollect ==
    /\ par_pc = "collecting"
    /\ \E k \in 1..Len(par_tasks) :
           /\ TaskDone(par_tasks[k])
           /\ k \notin Collected(par_results)
           /\ IF TaskRaises(par_tasks[k])
              THEN /\ par_exc' = TRUE
                   /\ par_pc' = "exiting"
                   /\ UNCHANGED par_results
              ELSE /\ par_results' = Append(par_results, k)
                   /\ UNCHANGED <<par_exc, par_pc>>
    /\ UNCHANGED <<par_scripts, par_sub, par_N, par_gens, par_gens0, par_i, par_tasks>>
    /\ ParOnly

\* as_completed has yielded every future
ParCollected ==
    /\ par_pc = "collecting"
    /\ Collected(par_results) = 1..Len(par_tasks)
    /\ par_pc' = "exiting"
    /\ UNCHANGED <<par_scripts, par_sub, par_N, par_gens, par_gens0, par_i, par_tasks,
                   par_results, par_exc>>
    /\ ParOnly

\* the `with` block is left and run() returns results or lets the exception out
ParExit ==
    /\ par_pc = "exiting"
    /\ ExecutorExitReady(par_tasks)
    /\ par_pc' = IF par_exc THEN "raised" ELSE "returned"
    /\ UNCHANGED <<par_scripts, par_sub, par_N, par_gens, par_gens0, par_i, par_tasks,
                   par_results, par_exc>>
    /\ ParOnly

NextPar ==
    \/ ParRunSubprocess
    \/ ParRunPool
    \/ ParSubmit
    \/ ParSubmitted
    \/ PoolDispatch
    \/ ParStart
    \/ ParFinish
    \/ ParCollect
    \/ ParCollected
    \/ ParExit

\* ---------------------------------------------------------------- SpecCall
\* EntrypointFinder.call_entrypoint on one function, by its signature.
Positional(name) == Param(name, "POSITIONAL_OR_KEYWORD", FALSE, 0)

Defaulted(name, kind) == Param(name, kind, TRUE, 10)

VarArgs == Param("args", "VAR_POSITIONAL", FALSE, 0)

VarKwargs == Param("kwargs", "VAR_KEYWORD", FALSE, 0)

\* def f(): / f(x) / f(x, y=10) / f(*args) / f(x, *args) / f(**kwargs) /
\* f(x, **kwargs) / f(*, y=10) / f(*, y) / f(*args, **kwargs)
Signatures ==
    {<<>>,
     <<Positional("x")>>,
     <<Positional("x"), Defaulted("y", "POSITIONAL_OR_KEYWORD")>>,
     <<VarArgs>>,
     <<Positional("x"), VarArgs>>,
     <<VarKwargs>>,
     <<Positional("x"), VarKwargs>>,
     <<Defaulted("y", "KEYWORD_ONLY")>>,
     <<Param("y", "KEYWORD_ONLY", FALSE, 0)>>,
     <<VarArgs, VarKwargs>>}

ArgValues == {1, 2}

ArgLists == UNION {[1..n -> ArgValues] : n \in 0..MaxArgs}

KwargNames == <<"x", "y", "z", "args">>

\* a dict with the keys of `names`, in the order of KwargNames
KwargsOf(names) ==
    LET kept == SelectSeq(KwargNames, LAMBDA n : n \in names)
    IN [i \in 1..Len(kept) |-> <<kept[i], 20>>]

KwargDicts == {KwargsOf(names) : names \in SUBSET Range(KwargNames)}

InitCall ==
    /\ call_params \in Signatures
    /\ call_args \in ArgLists
    /\ call_kwargs \in KwargDicts
    /\ call_passed = <<>>
    /\ call_outcome = "not_called"

IdleCall ==
    /\ call_params = <<>>
    /\ call_args = <<>>
    /\ call_kwargs = <<>>
    /\ call_passed = <<>>
    /\ call_outcome = "not_called"

\* call_entrypoint(func, args, kwargs) for a func whose body returns None
Call ==
    /\ call_outcome = "not_called"
    /\ LET func == Func(call_params, "none")
           r == CallEntrypoint(NoModule, func, call_args, call_kwargs)
       IN /\ call_passed' = <<CallArgs(call_params, call_args),
                              CallKwargs(call_params, call_kwargs)>>
          /\ call_outcome' = IF r.exc = "" THEN "return" ELSE r.exc
    /\ UNCHANGED <<call_params, call_args, call_kwargs>>
    /\ CallOnly

NextCall == Call

\* ---------------------------------------------------------------- SpecFind
\* The source of a unit as _find_main_block_function sees it: the ast.If
\* nodes in ast.walk order, each with whether its test is
\* `__name__ == "__main__"`, whether it is nested in another statement, and
\* the statements of its body. A statement is
\*   "call"   name(...)               an expression statement, callee a bare name
\*   "async"  asyncio.run(name(...))
\*   "attr"   sys.exit(name(...))     an expression statement, callee an attribute
\*   "assign" result = name(...)      not an expression statement
Stmt(kind, name) == [kind |-> kind, name |-> name]

Stmts == {Stmt("call", "run"), Stmt("call", "print"), Stmt("async", "run"),
          Stmt("attr", "run"), Stmt("assign", "run")}

Bodies == UNION {[1..n -> Stmts] : n \in 0..MaxStmts}

IfNode(guard, nested, body) == [guard |-> guard, nested |-> nested, body |-> body]

IfNodes == {IfNode(TRUE, nested, body) : nested \in BOOLEAN, body \in Bodies}
               \cup {IfNode(FALSE, nested, <<>>) : nested \in BOOLEAN}

Trees == UNION {[1..n -> IfNodes] : n \in 0..MaxIfs}

\* the body loop of _find_main_block_function on one guard: the name of the
\* first statement that is name(...) or asyncio.run(name(...)), "" if none
RECURSIVE BodyCall(_, _)
BodyCall(body, j) ==
    IF j > Len(body) THEN ""
    ELSE IF body[j].kind \in {"call", "async"} THEN body[j].name
    ELSE BodyCall(body, j + 1)

\* _find_main_block_function: `for node in ast.walk(tree)`, from node i on
RECURSIVE FindMainBlockFunctionFrom(_, _)
FindMainBlockFunctionFrom(tree, i) ==
    IF i > Len(tree) THEN ""
    ELSE IF tree[i].guard /\ BodyCall(tree[i].body, 1) # ""
         THEN BodyCall(tree[i].body, 1)
         ELSE FindMainBlockFunctionFrom(tree, i + 1)

FindMainBlockFunction(tree) == FindMainBlockFunctionFrom(tree, 1)

\* the module objects looked at: run and main defined or not, main possibly
\* bound to a value that is not callable
FindModules ==
    {[name |-> <<"unit">>, ns |-> ns, funcs |-> [f \in fs |-> Func(<<>>, "none")], calls |-> 0] :
        fs \in SUBSET {"main", "run"}, ns \in {EmptyMap}}
    \cup {[name |-> <<"unit">>, ns |-> [n \in {"main"} |-> 5],
           funcs |-> [f \in fs |-> Func(<<>>, "none")], calls |-> 0] : fs \in SUBSET {"run"}}

\* the unit a source and its loaded module stand for
UnitOf(tree, module, is_module) ==
    [name |-> "unit", is_module |-> is_module, top |-> module.ns, funcs |-> module.funcs,
     guard |-> FindMainBlockFunction(tree), guard_args |-> <<>>]

InitFind ==
    /\ find_tree \in Trees
    /\ find_module \in FindModules
    /\ find_is_module \in BOOLEAN
    /\ find_result = <<>>

IdleFind ==
    /\ find_tree = <<>>
    /\ find_module = NoModule
    /\ find_is_module = FALSE
    /\ find_result = <<>>

\* ScriptExecutor._find_entrypoint(module) for a Script without explicit entry name
Find ==
    /\ find_result = <<>>
    /\ LET s == Script(UnitOf(find_tree, find_module, find_is_module), NoConfig, "")
           r == FindEntrypoint(s, find_module)
       IN find_result' = <<[found |-> r.found, name |-> r.name]>>
    /\ UNCHANGED <<find_tree, find_module, find_is_module>>
    /\ FindOnly

NextFind == Find

\* ---------------------------------------------------------------- SpecLoad
\* What is at config_path: nothing, or a Python file that may define
\* config_gen (callable with the given parameters, or a plain value) and may
\* define CONFIG (a Config, or a value of another type). `returns` is the
\* kind of value config_gen returns, `items` the Configs in it:
\*   "Config"     a Config
\*   "generator"  a generator or iterator of items
\*   "list"       a list of items
\*   "tuple"      a tuple of items
\*   "int"        a number
ConfigFile(exists, has_gen, callable, params, returns, items, has_CONFIG, CONFIG_ok) ==
    [exists |-> exists, has_gen |-> has_gen, callable |-> callable, params |-> params,
     returns |-> returns, items |-> items, has_CONFIG |-> has_CONFIG, CONFIG_ok |-> CONFIG_ok]

\* def config_gen(): / (worker_id) / (worker_id=10) / (**kwargs) / (x)
GenSignatures ==
    {<<>>,
     <<Positional("worker_id")>>,
     <<Defaulted("worker_id", "POSITIONAL_OR_KEYWORD")>>,
     <<VarKwargs>>,
     <<Positional("x")>>}

ReturnKinds == {"Config", "generator", "list", "tuple", "int"}

LoadItems == UNION {[1..n -> {"c1", "c2"}] : n \in 0..MaxLoadLen}

ConfigFiles ==
    {ConfigFile(FALSE, FALSE, FALSE, <<>>, "Config", <<>>, FALSE, FALSE)}
    \cup {ConfigFile(TRUE, FALSE, FALSE, <<>>, "Config", <<>>, has_CONFIG, ok) :
              has_CONFIG \in BOOLEAN, ok \in BOOLEAN}
    \cup {ConfigFile(TRUE, TRUE, FALSE, <<>>, "Config", <<>>, has_CONFIG, TRUE) :
              has_CONFIG \in BOOLEAN}
    \cup {ConfigFile(TRUE, TRUE, TRUE, params, returns, items, has_CONFIG, TRUE) :
              params \in GenSignatures, returns \in ReturnKinds, items \in LoadItems,
              has_CONFIG \in BOOLEAN}

WorkerIds == {<<>>, <<0>>, <<1>>}

\* worker_id is passed whenever one was supplied
PassWorkerIdAlways(wid, params) == wid # <<>>

\* `worker_id is not None and "worker_id" in params`
PassWorkerId(wid, params) == wid # <<>> /\ "worker_id" \in ParamNames(params)

\* hasattr(result, "__iter__") and hasattr(result, "__next__"): an iterator
IsIterator(returns) == returns = "generator"

\* any iterable
IsIterable(returns) == returns \in {"generator", "list", "tuple"}

\* What load_config does: `does` is "Config" or "ConfigGenerator" (returned)
\* or the exception raised; `from` the symbol used; `call` how config_gen was
\* called (<<>> not called, << <<>> >> without argument, << <<n>> >> with
\* worker_id=n);
\* `gen` the ConfigGenerator returned.
LoadOutcome(does, from, call, g) == [does |-> does, from |-> from, call |-> call, gen |-> g]

\* load_config from `result = config_gen(...)` on
LoadFromGen(file, call) ==
    LET kwargs == IF call = <<>> THEN <<>> ELSE << <<"worker_id", call[1]>> >>
        b == BindCall(file.params, <<>>, kwargs)
    IN IF ~b.ok THEN LoadOutcome("TypeError", "config_gen", <<call>>, ConfigGenerator(<<>>))
       ELSE IF file.returns = "Config"
            THEN LoadOutcome("Config", "config_gen", <<call>>, ConfigGenerator(<<>>))
       ELSE IF IsIterator(file.returns)
            THEN LoadOutcome("ConfigGenerator", "config_gen", <<call>>, ConfigGenerator(file.items))
       ELSE LoadOutcome("ValueError", "config_gen", <<call>>, ConfigGenerator(<<>>))

\* ConfigLoader.load_config
LoadConfig(file, wid) ==
    IF ~file.exists THEN LoadOutcome("FileNotFoundError", "", <<>>, ConfigGenerator(<<>>))
    ELSE IF file.has_gen
         THEN IF ~file.callable
              THEN LoadOutcome("ValueError", "config_gen", <<>>, ConfigGenerator(<<>>))
              ELSE LoadFromGen(file, IF PassWorkerId(wid, file.params) THEN wid ELSE <<>>)
    ELSE IF file.has_CONFIG
         THEN IF file.CONFIG_ok
              THEN LoadOutcome("Config", "CONFIG", <<>>, ConfigGenerator(<<>>))
              ELSE LoadOutcome("ValueError", "CONFIG", <<>>, ConfigGenerator(<<>>))
    ELSE LoadOutcome("ValueError", "", <<>>, ConfigGenerator(<<>>))

InitLoad ==
    /\ load_file \in ConfigFiles
    /\ load_wid \in WorkerIds
    /\ load_result = <<>>

IdleLoad ==
    /\ load_file = ConfigFile(FALSE, FALSE, FALSE, <<>>, "Config", <<>>, FALSE, FALSE)
    /\ load_wid = <<>>
    /\ load_result = <<>>

\* ConfigLoader.load_config(config_path, worker_id)
Load ==
    /\ load_result = <<>>
    /\ load_result' = <<LoadConfig(load_file, load_wid)>>
    /\ UNCHANGED <<load_file, load_wid>>
    /\ LoadOnly

NextLoad == Load

\* ---------------------------------------------------------------- Script
\* A path string and what it names: it contains a path separator (sep), it
\* ends, before an optional `:entry`, with ".py", with another extension or
\* with none (suffix), what is at that path ("file", "dir", "missing"), and
\* what importlib.util.find_spec finds for it read as a module name: nothing
\* ("none"), a spec whose origin is a .py file ("py"), an extension module
\* ("so"), or "built-in".
Target(sep, suffix, entry, at, origin) ==
    [sep |-> sep, suffix |-> suffix, entry |-> entry, at |-> at, origin |-> origin]

\* Script._looks_like_module
LooksLikeModule(t) == ~t.sep /\ t.suffix # "py"

Targets ==
    {t \in {Target(sep, suffix, entry, at, origin) :
                sep \in BOOLEAN, suffix \in {"py", "txt", ""}, entry \in {"", "run"},
                at \in {"file", "dir", "missing"},
                origin \in {"none", "py", "so", "built-in"}} :
        /\ t.entry # "" => (t.suffix = "py" \/ ~t.sep)
        /\ ~LooksLikeModule(t) => t.origin = "none"
        /\ t.origin = "built-in" => t.suffix = ""}

\* a Script after __post_init__, or the exception __post_init__ raised
ScriptObject(raised, is_module, module_name, path, entrypoint) ==
    [raised |-> raised, is_module |-> is_module, module_name |-> module_name,
     path |-> path, entrypoint |-> entrypoint]

\* the `:entry` suffix is taken only if `entrypoint` was not given
ParsedEntrypoint(t, entrypoint) == IF entrypoint = "" THEN t.entry ELSE entrypoint

\* Script._init_as_module: module_name is the string without `:entry`; path
\* is the spec's origin, or the name itself for a built-in module
InitAsModule(t, entrypoint) ==
    LET module_part == Target(FALSE, t.suffix, "", t.at, t.origin)
    IN  IF t.origin = "none"
        THEN ScriptObject("ModuleNotFoundError", FALSE, <<>>, t, entrypoint)
        ELSE ScriptObject("", TRUE, <<module_part>>,
                          IF t.origin = "built-in"
                          THEN module_part
                          ELSE Target(TRUE, t.origin, "", "file", "none"),
                          ParsedEntrypoint(t, entrypoint))

\* Script._init_as_file
InitAsFile(t, entrypoint) ==
    LET path == Target(t.sep, t.suffix, "", t.at, t.origin)
    IN  IF t.at = "missing"
        THEN ScriptObject("FileNotFoundError", FALSE, <<>>, path, entrypoint)
        ELSE IF t.suffix # "py"
        THEN ScriptObject("ValueError", FALSE, <<>>, path, entrypoint)
        ELSE ScriptObject("", FALSE, <<>>, path, ParsedEntrypoint(t, entrypoint))

\* Script.__post_init__
PostInit(t, entrypoint) ==
    IF LooksLikeModule(t) THEN InitAsModule(t, entrypoint) ELSE InitAsFile(t, entrypoint)

\* ScriptExecutor._load_module on a constructed Script: what it raises ("" if
\* it returns the module)
LoadTarget(s) ==
    IF s.is_module /\ s.module_name # <<>> THEN ""
    ELSE IF s.path.at = "file" THEN ""
    ELSE IF s.path.at = "dir" THEN "IsADirectoryError"
    ELSE "FileNotFoundError"

\* cli.cmd_run in a child process given the string `ref`: what it raises
CliRun(ref) ==
    LET s == PostInit(ref, "")
    IN  IF s.raised # "" THEN s.raised ELSE LoadTarget(s)

\* how an execution ended: where it stopped, what was raised (in the child,
\* for a subprocess), the child's return code, and the entry operation the
\* executing process resolved ("" if it did not get that far)
RunOutcome(stage, raised, returncode, entry) ==
    [stage |-> stage, raised |-> raised, returncode |-> returncode, entry |-> entry]

\* ScriptExecutor._find_entrypoint for a Script whose explicit entry name is
\* `entrypoint` ("" for None), on a unit that defines main and run and whose
\* guard calls main: the explicit name if there is one, else the detected main
EntryInvoked(entrypoint) == IF entrypoint = "" THEN "main" ELSE entrypoint

\* cli.cmd_run in a child process given the string `ref`, launched for the
\* Script s: the entry operation it resolves. The command line carries no
\* --entrypoint, so the child's Script has the entry name parsed from `ref`.
CliRunEntry(ref, s) == EntryInvoked(PostInit(ref, "").entrypoint)

\* a child process running `kohakuengine.cli run ref`, launched for Script s
Subprocess(ref, s) ==
    LET e == CliRun(ref)
    IN  RunOutcome("execution", e, <<IF e = "" THEN 0 ELSE 1>>,
                   IF e = "" THEN CliRunEntry(ref, s) ELSE "")

\* ScriptExecutor(script).execute() in this process
InProcess(s) ==
    LET e == LoadTarget(s)
    IN  RunOutcome("execution", e, <<>>, IF e = "" THEN EntryInvoked(s.entrypoint) ELSE "")

\* Script._run_subprocess: script_ref
ScriptRef(s) == IF s.is_module THEN s.module_name[1] ELSE s.path

\* Sequential._run_subprocess, Parallel._spawn_subprocess: str(script.path)
WorkflowRef(s) == s.path

\* ScriptWorkflow.validate
Validate(s) == s.path.at # "missing"

InitDesc ==
    /\ desc_target \in Targets
    /\ desc_entrypoint \in {"", "main"}
    /\ desc_script = <<>>
    /\ desc_exec = <<>>

IdleDesc ==
    /\ desc_target = Target(FALSE, "py", "", "file", "none")
    /\ desc_entrypoint = ""
    /\ desc_script = <<>>
    /\ desc_exec = <<>>

\* Script(path, entrypoint=...)
ScriptInit ==
    /\ desc_script = <<>>
    /\ desc_script' = <<PostInit(desc_target, desc_entrypoint)>>
    /\ UNCHANGED <<desc_target, desc_entrypoint, desc_exec>>
    /\ DescOnly

\* script.run(use_subprocess=...)
ScriptRun ==
    /\ desc_script # <<>>
    /\ desc_script[1].raised = ""
    /\ desc_exec = <<>>
    /\ \E use_subprocess \in BOOLEAN :
          desc_exec' = <<IF use_subprocess
                         THEN Subprocess(ScriptRef(desc_script[1]), desc_script[1])
                         ELSE InProcess(desc_script[1])>>
    /\ UNCHANGED <<desc_target, desc_entrypoint, desc_script>>
    /\ DescOnly

\* Sequential([script], use_subprocess=...).run() and
\* Parallel([script], use_subprocess=True).run()
WorkflowRun ==
    /\ desc_script # <<>>
    /\ desc_script[1].raised = ""
    /\ desc_exec = <<>>
    /\ \E use_subprocess \in BOOLEAN :
          desc_exec' = <<IF ~Validate(desc_script[1])
                         THEN RunOutcome("workflow_construction", "ValueError", <<>>, "")
                         ELSE IF use_subprocess
                         THEN Subprocess(WorkflowRef(desc_script[1]), desc_script[1])
                         ELSE InProcess(desc_script[1])>>
    /\ UNCHANGED <<desc_target, desc_entrypoint, desc_script>>
    /\ DescOnly

NextDesc == ScriptInit \/ ScriptRun \/ WorkflowRun

\* ---------------------------------------------------------------- cli
\* a parsed command line: `run` (func "cmd_run"), `workflow sequential`,
\* `workflow parallel`; --subprocess; --config names a file that yields a
\* ConfigGenerator; --mode
Command(func, subprocess, generator, mode) ==
    [func |-> func, subprocess |-> subprocess, generator |-> generator, mode |-> mode]

Commands ==
    {Command("cmd_run", sub, g, "") : sub \in BOOLEAN, g \in BOOLEAN}
    \cup {Command("cmd_workflow_sequential", FALSE, g, "") : g \in BOOLEAN}
    \cup {Command("cmd_workflow_parallel", FALSE, g, mode) :
              g \in BOOLEAN, mode \in {"subprocess", "pool"}}

\* the executions a command asks for, each failing (TRUE) or not: one for
\* `run` without a generator, one per script and yielded Config otherwise
CliTaskLists(cmd) ==
    IF cmd.func = "cmd_run" /\ ~cmd.generator
    THEN [1..1 -> BOOLEAN]
    ELSE UNION {[1..n -> BOOLEAN] : n \in (IF cmd.generator THEN 0 ELSE 1)..MaxCliTasks}

\* executions made one after the other in this process: the first failure
\* raises out of the loop
UntilFailure(tasks) ==
    IF \E i \in 1..Len(tasks) : tasks[i]
    THEN SubSeq(tasks, 1, CHOOSE i \in 1..Len(tasks) :
                              tasks[i] /\ \A j \in 1..(i-1) : ~tasks[j])
    ELSE tasks

\* the command's function raised an Exception: main prints it and exits 1;
\* otherwise the function ends in sys.exit(0)
ExitStatus(raised) == IF raised THEN 1 ELSE 0

\* the return codes of child processes are not looked at
SubprocessRaises(ran) == FALSE

\* a failing execution in this process raises out of the command's function
InProcessRaises(ran) == \E i \in 1..Len(ran) : ran[i]

InitCli ==
    /\ cli_cmd \in Commands
    /\ cli_tasks \in CliTaskLists(cli_cmd)
    /\ cli_ran = <<>>
    /\ cli_exit = <<>>

IdleCli ==
    /\ cli_cmd = Command("cmd_run", FALSE, FALSE, "")
    /\ cli_tasks = <<FALSE>>
    /\ cli_ran = <<>>
    /\ cli_exit = <<>>

\* main with `run`: one in-process execution, one child process, or a
\* Sequential over the generator
CmdRun ==
    /\ cli_cmd.func = "cmd_run"
    /\ cli_exit = <<>>
    /\ cli_ran' = IF cli_cmd.subprocess THEN cli_tasks ELSE UntilFailure(cli_tasks)
    /\ cli_exit' = <<ExitStatus(IF cli_cmd.subprocess
                                THEN SubprocessRaises(cli_ran')
                                ELSE InProcessRaises(cli_ran'))>>
    /\ UNCHANGED <<cli_cmd, cli_tasks>>
    /\ CliOnly

\* main with `workflow sequential`: Sequential(scripts).run() in this process
CmdWorkflowSequential ==
    /\ cli_cmd.func = "cmd_workflow_sequential"
    /\ cli_exit = <<>>
    /\ cli_ran' = UntilFailure(cli_tasks)
    /\ cli_exit' = <<ExitStatus(InProcessRaises(cli_ran'))>>
    /\ UNCHANGED <<cli_cmd, cli_tasks>>
    /\ CliOnly

\* main with `workflow parallel`: child processes, or the process pool, whose
\* first submit cannot pickle execute_script and raises before any task runs
CmdWorkflowParallel ==
    /\ cli_cmd.func = "cmd_workflow_parallel"
    /\ cli_exit = <<>>
    /\ cli_ran' = IF cli_cmd.mode = "subprocess" THEN cli_tasks ELSE <<>>
    /\ cli_exit' = <<ExitStatus(IF cli_cmd.mode = "subprocess"
                                THEN SubprocessRaises(cli_ran')
                                ELSE cli_tasks # <<>>)>>
    /\ UNCHANGED <<cli_cmd, cli_tasks>>
    /\ CliOnly

NextCli == CmdRun \/ CmdWorkflowSequential \/ CmdWorkflowParallel

\* ---------------------------------------------------------------- _load_file_module
\* What a file holds, by what running it as a module does: the unit, the
\* importable modules its top-level code imports first, and the exception
\* its top-level code then raises ("" when it runs to its end).
Content(unit, imports, raises) == [unit |-> unit, imports |-> imports, raises |-> raises]

\* tests/test_engine/test_executor.py, test_executor_module_loading_error:
\* raise ImportError("Forced import error")
BadImportScript ==
    [name |-> "bad_import", is_module |-> FALSE,
     top |-> EmptyMap, funcs |-> NoFuncs, guard |-> "", guard_args |-> <<>>]

ForcedImportError == "ImportError:Forced import error"

Contents ==
    {Content(u, i, "") : u \in {CountScript, NoEntryScript, RaiseScript}, i \in {{}, {CountModule}}}
    \cup {Content(BadImportScript, i, ForcedImportError) : i \in {{}, {CountModule}}}

\* the Script whose path holds content c: the name is the path's stem
LfScript(c) == Script([c.unit EXCEPT !.name = "script"], NoConfig, "")

\* a module object and the load that created it
Context(load, module) == [load |-> load, module |-> module]

\* module = importlib.util.module_from_spec(spec): an empty module object
ModuleFromSpec(s) == [name |-> FileModuleName(s), ns |-> EmptyMap, funcs |-> NoFuncs, calls |-> 0]

\* `import m` in the unit's code: sys.modules gains m unless it holds it
Imported(sysm, units) ==
    [n \in (DOMAIN sysm) \cup {<<u.name>> : u \in units} |->
        IF n \in DOMAIN sysm THEN sysm[n]
        ELSE Context(0, ExecModule(CHOOSE u \in units : <<u.name>> = n, n).module)]

\* a finally clause that leaves the entry in place
PopModuleKept(sysm, name) == sysm

\* finally: sys.modules.pop(module_name, None)
PopModule(sysm, name) == Without(sysm, name)

\* the module registries a load may start from
Registries == {Imported([n \in {} |-> Context(0, NoModule)], i) : i \in {{}, {CountModule}}}

InitLf ==
    /\ lf_content \in Contents
    /\ lf_sys \in Registries
    /\ lf_sys0 = lf_sys
    /\ lf_pc = "idle"
    /\ lf_context = Context(0, NoModule)
    /\ lf_module = <<>>
    /\ lf_ended = "none"
    /\ lf_loads = 0

IdleLf ==
    /\ lf_content = Content(NoEntryScript, {}, "")
    /\ lf_sys = [n \in {} |-> Context(0, NoModule)]
    /\ lf_sys0 = lf_sys
    /\ lf_pc = "idle"
    /\ lf_context = Context(0, NoModule)
    /\ lf_module = <<>>
    /\ lf_ended = "none"
    /\ lf_loads = 0

\* ScriptExecutor(script): self._module = None
LfNewExecutor ==
    /\ lf_pc = "idle"
    /\ lf_ended # "none"
    /\ lf_module' = <<>>
    /\ lf_ended' = "none"
    /\ UNCHANGED <<lf_content, lf_sys, lf_sys0, lf_pc, lf_context, lf_loads>>
    /\ LfOnly

\* execute -> _load_module -> _load_file_module, up to exec_module: the file
\* holds c; a new module object is registered under the unique name
LfLoadBegin(c) ==
    /\ lf_pc = "idle"
    /\ lf_loads < MaxLoads
    /\ lf_content' = c
    /\ lf_sys0' = lf_sys
    /\ lf_loads' = lf_loads + 1
    /\ lf_context' = Context(lf_loads + 1, ModuleFromSpec(LfScript(c)))
    /\ lf_sys' = Bind1(lf_sys, FileModuleName(LfScript(c)), lf_context')
    /\ lf_pc' = "exec_module"
    /\ UNCHANGED <<lf_module, lf_ended>>
    /\ LfOnly

\* exec_module ends, the finally clause runs; after a load that did not raise,
\* self._module = module and execute goes on (injection, entry operation)
LfLoadEnd ==
    /\ lf_pc = "exec_module"
    /\ LET s == LfScript(lf_content)
           name == FileModuleName(s)
           ran == Imported(lf_sys, lf_content.imports)
           r == ExecModule(s.unit, name)
           exc == IF lf_content.raises # "" THEN lf_content.raises ELSE r.exc
           res == ExecuteLoaded(s, [module |-> r.module, exc |-> "", sysm |-> NoSysModules],
                                EffectiveConfig(s, NoConfig))
       IN /\ lf_sys' = PopModule(ran, name)
          /\ IF exc # ""
             THEN /\ lf_ended' = "raised"
                  /\ UNCHANGED <<lf_module, lf_context>>
             ELSE /\ lf_ended' = "ok"
                  /\ lf_context' = Context(lf_context.load, res.module)
                  /\ lf_module' = <<lf_context'>>
    /\ lf_pc' = "idle"
    /\ UNCHANGED <<lf_content, lf_sys0, lf_loads>>
    /\ LfOnly

NextLf ==
    \/ LfNewExecutor
    \/ \E c \in Contents : LfLoadBegin(c)
    \/ LfLoadEnd

\* ---------------------------------------------------------------- specifications
InitSpecExec == InitExec /\ IdleInject /\ IdleGen /\ IdleSeq /\ IdlePar /\ IdleCall /\ IdleFind /\ IdleLoad /\ IdleDesc /\ IdleCli /\ IdleLf

SpecExec == InitSpecExec /\ [][NextExec]_vars

InitSpecRaise == InitRaise /\ IdleInject /\ IdleGen /\ IdleSeq /\ IdlePar /\ IdleCall /\ IdleFind /\ IdleLoad /\ IdleDesc /\ IdleCli /\ IdleLf

SpecRaise == InitSpecRaise /\ [][NextRaise]_vars

InitSpecInject == InitInject /\ IdleExec /\ IdleGen /\ IdleSeq /\ IdlePar /\ IdleCall /\ IdleFind /\ IdleLoad /\ IdleDesc /\ IdleCli /\ IdleLf

SpecInject == InitSpecInject /\ [][NextInject]_vars

InitSpecGen == InitGen /\ IdleExec /\ IdleInject /\ IdleSeq /\ IdlePar /\ IdleCall /\ IdleFind /\ IdleLoad /\ IdleDesc /\ IdleCli /\ IdleLf

SpecGen == InitSpecGen /\ [][NextGen]_vars

InitSpecSeq == InitSeq /\ IdleExec /\ IdleInject /\ IdleGen /\ IdlePar /\ IdleCall /\ IdleFind /\ IdleLoad /\ IdleDesc /\ IdleCli /\ IdleLf

SpecSeq == InitSpecSeq /\ [][NextSeq]_vars

InitSpecPar == InitPar /\ IdleExec /\ IdleInject /\ IdleGen /\ IdleSeq /\ IdleCall /\ IdleFind /\ IdleLoad /\ IdleDesc /\ IdleCli /\ IdleLf

SpecPar == InitSpecPar /\ [][NextPar]_vars

\* Fair scheduling, every task terminating: the calling thread, the worker
\* threads and the child processes all go on, so a step that can be taken is
\* taken eventually.
FairSpecPar == SpecPar /\ WF_vars(NextPar)

InitSpecCall == InitCall /\ IdleExec /\ IdleInject /\ IdleGen /\ IdleSeq /\ IdlePar /\ IdleFind /\ IdleLoad /\ IdleDesc /\ IdleCli /\ IdleLf

SpecCall == InitSpecCall /\ [][NextCall]_vars

InitSpecFind == InitFind /\ IdleExec /\ IdleInject /\ IdleGen /\ IdleSeq /\ IdlePar /\ IdleCall /\ IdleLoad /\ IdleDesc /\ IdleCli /\ IdleLf

SpecFind == InitSpecFind /\ [][NextFind]_vars

InitSpecLoad == InitLoad /\ IdleExec /\ IdleInject /\ IdleGen /\ IdleSeq /\ IdlePar /\ IdleCall /\ IdleFind /\ IdleDesc /\ IdleCli /\ IdleLf

SpecLoad == InitSpecLoad /\ [][NextLoad]_vars

InitSpecDesc == InitDesc /\ IdleExec /\ IdleInject /\ IdleGen /\ IdleSeq /\ IdlePar /\ IdleCall /\ IdleFind /\ IdleLoad /\ IdleCli /\ IdleLf

SpecDesc == InitSpecDesc /\ [][NextDesc]_vars

InitSpecCli == InitCli /\ IdleExec /\ IdleInject /\ IdleGen /\ IdleSeq /\ IdlePar /\ IdleCall /\ IdleFind /\ IdleLoad /\ IdleDesc /\ IdleLf

SpecCli == InitSpecCli /\ [][NextCli]_vars

InitSpecLf == InitLf /\ IdleExec /\ IdleInject /\ IdleGen /\ IdleSeq /\ IdlePar /\ IdleCall /\ IdleFind /\ IdleLoad /\ IdleDesc /\ IdleCli

SpecLf == InitSpecLf /\ [][NextLf]_vars

\* ================================================================ claims
\* ---------------------------------------------------------------- ScriptExecutor
Executed == ex_outcome # NotRun

Returned(v) == ex_outcome = [kind |-> "return", exc |-> "", value |-> v]

Raised(e) == ex_outcome = [kind |-> "raise", exc |-> e, value |-> <<>>]

\* the overrides of the config in effect leave the name n alone
NotOverridden(n) == ~HasKey(ex_config.globals_dict, n)

\* C1: execute on a file-based unit with a guard loads it under a name that is
\* never "__main__", so no function body runs during the load; no execute runs
\* the entry operation twice, and an execute that returns has run it exactly
\* once. For the counting unit, whose guard calls main, the counter is 1 after
\* one run and main's return value is 1.
C1_NoDoubleExecution ==
    (Executed /\ ~script.unit.is_module /\ script.unit.guard # "") =>
        /\ ex_loaded.name # MainName
        /\ ex_loaded.calls = 0
        /\ ex_module.calls <= 1
        /\ (ex_outcome.kind = "return" => ex_module.calls = 1)
        /\ (/\ script.unit = CountScript
            /\ ex_outcome.kind = "return"
            /\ NotOverridden("execution_count")
            /\ NotOverridden("main")
            => /\ ex_module.ns["execution_count"] = 1
               /\ Returned(<<1>>))

C1_Witness ==
    /\ script = Script(CountScript, NoConfig, "")
    /\ Returned(<<1>>)
    /\ ex_module.calls = 1
    /\ ex_module.ns["execution_count"] = 1

\* C2: every execute starts from a freshly loaded context: what _load_module
\* hands to the rest of execute is the unit as its top-level code leaves it,
\* with no override and no mutation of an earlier run in it.
C2_FreshContext ==
    Executed =>
        /\ ex_loaded.ns = script.unit.top
        /\ ex_loaded.funcs = script.unit.funcs
        /\ ex_loaded.calls = 0

\* C5 as stated: a unit with no guard and no main, run without an explicit
\* entry name, makes execute raise the "no entry point" RuntimeError whenever
\* a Config is in effect, and return None when none is.
C5_NoEntryPoint_Original ==
    (Executed /\ script.unit = NoEntryScript /\ script.entrypoint = "") =>
        /\ ex_config.kind = "Config" => Raised("RuntimeError:No entrypoint found")
        /\ ex_config.kind = "None" => Returned(<<>>)

\* the overrides name no reserved identifier
NoProtectedOverride == Keys(ex_config.globals_dict) \cap PROTECTED_NAMES = {}

\* the overrides bind main to a function
CallableMainOverride ==
    \E i \in 1..Len(ex_config.globals_dict) :
        ex_config.globals_dict[i][1] = "main" /\ ex_config.globals_dict[i][2] = "callable"

\* C5 (amended): for that unit, execute raises the "no entry point"
\* RuntimeError whenever a Config is in effect whose overrides name no
\* reserved identifier and do not bind main to a function, and returns None
\* when no config is in effect.
C5_NoEntryPoint ==
    (Executed /\ script.unit = NoEntryScript /\ script.entrypoint = "") =>
        /\ (ex_config.kind = "Config" /\ NoProtectedOverride /\ ~CallableMainOverride)
               => Raised("RuntimeError:No entrypoint found")
        /\ ex_config.kind = "None" => Returned(<<>>)

C5_Witness ==
    /\ script.unit = NoEntryScript
    /\ script.entrypoint = ""
    /\ script.config = NoConfig
    /\ ex_config = Config(<< <<"x", "value", 5>> >>, <<>>, << <<"y", 20>> >>)
    /\ Raised("RuntimeError:No entrypoint found")

\* C6 as stated: main(x, y=10) returning x + y, run with the override x = 5 and
\* the keyword argument y = 20 and no positional argument, returns 25.
C6_OverrideAsArgument ==
    (/\ Executed
     /\ script.unit = ArgsScript
     /\ script.entrypoint = ""
     /\ ex_config = Config(<< <<"x", "value", 5>> >>, <<>>, << <<"y", 20>> >>))
        => Returned(<<25>>)

\* C6 (amended): run with the positional argument 5 and the keyword argument
\* y = 20, main(x, y=10) returns 25.
C6_PositionalArgument ==
    (/\ Executed
     /\ script.unit = ArgsScript
     /\ script.entrypoint = ""
     /\ ex_config = Config(<<>>, <<5>>, << <<"y", 20>> >>))
        => Returned(<<25>>)

C6_Witness ==
    /\ script.unit = ArgsScript
    /\ script.entrypoint = ""
    /\ ex_config = Config(<<>>, <<5>>, << <<"y", 20>> >>)
    /\ Returned(<<25>>)
    /\ ex_module.calls = 1

\* ---------------------------------------------------------------- GlobalInjector
\* C4: inject with a mapping that holds a reserved name raises ValueError and
\* leaves the module as it was: no override of the mapping has been applied.
C4_NoPartialInject ==
    (inj_outcome # "not_run" /\ Keys(inj_map) \cap PROTECTED_NAMES # {}) =>
        /\ inj_outcome = "ValueError"
        /\ inj_module = inj_before

\* ---------------------------------------------------------------- ConfigGenerator
\* C3: once a pull has observed the producer's completion (it raised
\* StopIteration), `exhausted` is true and every later pull raises
\* StopIteration too: no pull after it returns a value or raises anything else.
C3_ExhaustionIsFinal ==
    \A i \in 1..Len(gen_log) :
        gen_log[i] = "StopIteration" =>
            /\ gen.exhausted
            /\ \A j \in i..Len(gen_log) : gen_log[j] = "StopIteration"

C3_Witness ==
    /\ Len(gen_log) = 4
    /\ gen_log[1] = "c1"
    /\ gen_log[2] = "StopIteration"
    /\ gen_log[3] = "StopIteration"
    /\ gen_log[4] = "StopIteration"
    /\ gen.exhausted

\* ---------------------------------------------------------------- Sequential claims
\* The Configs a ConfigGenerator has still to yield, in source order
Remaining(g) == IF g.exhausted THEN <<>> ELSE SubSeq(g.items, g.pos + 1, Len(g.items))

Drained(g) == [g EXCEPT !.pos = Len(g.items), !.exhausted = TRUE]

RECURSIVE ListOrder(_, _, _)
\* The executions the scripts from number i on call for, in list order: one
\* for a script with a fixed config or none, one per Config its generator
\* has still to yield for a script with a ConfigGenerator.
ListOrder(scripts, gens, i) ==
    IF i > Len(scripts) THEN <<>>
    ELSE IF scripts[i].cfg = "ConfigGenerator"
         THEN LET g == scripts[i].gen
                  rest == Remaining(gens[g])
              IN [k \in 1..Len(rest) |-> Execution(i, rest[k])]
                     \o ListOrder(scripts, [gens EXCEPT ![g] = Drained(@)], i + 1)
         ELSE <<Execution(i, FixedConfig(scripts[i]))>> \o ListOrder(scripts, gens, i + 1)

IsPrefix(a, b) == Len(a) <= Len(b) /\ SubSeq(b, 1, Len(a)) = a

SeqExpected == ListOrder(seq_scripts, seq_gens0, 1)

\* C7: a Sequential workflow runs its executions strictly one at a time, in
\* list order, once per script with a fixed config (or none) and once per
\* yielded Config in source order for a script with a ConfigGenerator; an
\* execution starts only after the one before it has ended, and a run that
\* returns has made every execution and returns one result per execution, in
\* execution order.
C7_OneAtATimeInOrder ==
    /\ Cardinality(seq_active) <= 1
    /\ IsPrefix(seq_started, SeqExpected)
    /\ Len(seq_started) = Len(seq_finished) + Cardinality(seq_active)
    /\ \A k \in 1..Len(seq_finished) :
           /\ seq_finished[k].script = seq_started[k].script
           /\ seq_finished[k].config = seq_started[k].config
    /\ seq_pc = "returned" =>
           /\ seq_started = SeqExpected
           /\ Len(seq_results) = Len(seq_started)
           /\ \A k \in 1..Len(seq_results) :
                  /\ seq_results[k].script = seq_started[k].script
                  /\ seq_results[k].config = seq_started[k].config

\* a run over a fixed script, then a source of three Configs, has returned
C7_Witness ==
    /\ seq_pc = "returned"
    /\ Len(seq_scripts) = 2
    /\ seq_scripts[1].cfg = "Config"
    /\ seq_scripts[2].cfg = "ConfigGenerator"
    /\ seq_started = <<Execution(1, "c0"), Execution(2, "c1"),
                       Execution(2, "c2"), Execution(2, "c3")>>
    /\ Len(seq_results) = 4

\* C8: when an execution of a Sequential workflow fails, in-process or in a
\* subprocess, no later execution is started and run() reports the failure
\* to its caller.
C8_FailureAborts ==
    \A k \in 1..Len(seq_finished) :
        ~seq_finished[k].ok =>
            /\ Len(seq_started) = k
            /\ seq_pc = "raised"

\* the in-process half of C8
C8_InProcessFailureAborts == ~seq_sub => C8_FailureAborts

\* ---------------------------------------------------------------- Parallel claims
ParEnded == par_pc \in {"returned", "raised"}

\* the number of tasks the run's input expands to
ParT == Len(ListOrder(par_scripts, par_gens0, 1))

\* C9: Parallel.run with bound N over T tasks never has more than N tasks
\* running at the same time, in the subprocess strategy and in the
\* worker-pool strategy alike, and a run in which no task fails to be
\* launched ends by returning exactly T results, one per task, in any order.
C9_BoundedAndComplete ==
    /\ Cardinality(Running(par_tasks)) <= par_N
    /\ (ParEnded /\ \A k \in 1..Len(par_tasks) : par_tasks[k].state # "spawn_error") =>
           /\ par_pc = "returned"
           /\ Len(par_results) = ParT
           /\ Collected(par_results) = 1..ParT

\* the subprocess half of C9
C9_SubprocessBoundedAndComplete == par_sub => C9_BoundedAndComplete

\* C10: Parallel.run is a batch join: when control returns to the caller,
\* with a result list or with a propagated failure, every task of the batch
\* has finished (none is pending or running): the result list is handed over
\* only for a complete batch.
C10_BatchJoin ==
    ParEnded =>
        /\ Len(par_tasks) = ParT
        /\ \A k \in 1..Len(par_tasks) : TaskDone(par_tasks[k])

\* a failure was propagated out of a subprocess run of four tasks whose
\* first task could not be launched; the three others ran to their end
C10_Witness ==
    /\ par_pc = "raised"
    /\ par_sub
    /\ Len(par_tasks) = 4
    /\ par_tasks[1].state = "spawn_error"
    /\ \A k \in 2..4 : par_tasks[k].state = "exit0"
    /\ par_results = <<>>

\* a task's own failure: its child exited with a non-zero status, or its
\* future carries an exception
TaskFailed(t) == t.state \in {"exit1", "spawn_error", "not_dispatched"}

\* the task was started and ran to its end
TaskRan(t) == t.state \in {"exit0", "exit1"}

\* C11: a failing task in Parallel.run does not stop its siblings: in both
\* strategies, when the run of a batch with a failed task has ended, every
\* other task of the batch has been started and has run to completion.
C11_SiblingsComplete ==
    ParEnded =>
        /\ Len(par_tasks) = ParT
        /\ \A k \in 1..Len(par_tasks) :
               TaskFailed(par_tasks[k]) =>
                   \A j \in 1..Len(par_tasks) :
                       (j # k /\ par_tasks[j].state # "spawn_error") => TaskRan(par_tasks[j])

\* the subprocess half of C11
C11_SubprocessSiblingsComplete == par_sub => C11_SiblingsComplete

\* C12: when a task of Parallel.run fails (and every task could be
\* launched), run() still returns the aggregate for the whole batch: one
\* outcome per task, the failed task's among them, in both strategies.
C12_FailureInAggregate ==
    (/\ ParEnded
     /\ \E k \in 1..Len(par_tasks) : TaskFailed(par_tasks[k])
     /\ \A k \in 1..Len(par_tasks) : par_tasks[k].state # "spawn_error") =>
        /\ par_pc = "returned"
        /\ Collected(par_results) = 1..ParT

\* the subprocess half of C12
C12_SubprocessFailureInAggregate == par_sub => C12_FailureInAggregate

\* every ConfigGenerator of the workflow's scripts has been pulled to exhaustion
SourcesDrained ==
    \A i \in 1..Len(par_scripts) :
        par_scripts[i].cfg = "ConfigGenerator" => par_gens[par_scripts[i].gen].exhausted

\* the executor has taken the task up: it runs, has ended, or its dispatch
\* was attempted
TaskTakenUp(t) == t.state # "pending"

\* the (script, config) pairs of the submitted tasks, in submission order
TaskKeys == [k \in 1..Len(par_tasks) |-> Execution(par_tasks[k].script, par_tasks[k].config)]

C14_ExplicitEntry ==
    (Executed /\ script.entrypoint # "" /\ ex_config.kind # "ConfigGenerator") =>
        /\ (script.unit = MultiEntryScript /\ script.entrypoint = "evaluate"
                /\ NoProtectedOverride)
               => /\ Returned(<<Returns["evaluated"]>>)
                  /\ ex_module.calls = 1
        /\ ~HasAttr(ex_module, script.entrypoint)
               => /\ Raised("ValueError")
                  /\ ex_module.calls = ex_loaded.calls

C14_Witness ==
    /\ script = Script(MultiEntryScript, NoConfig, "evaluate")
    /\ ex_config = Config(<<>>, <<>>, <<>>)
    /\ Returned(<<2>>)
    /\ ex_module.calls = 1

\* ---------------------------------------------------------------- call_entrypoint claims
Called == call_outcome # "not_called"

\* the operation declares a parameter that takes a positional argument
AcceptsPositional(params) ==
    \E i \in 1..Len(params) : params[i].kind \in {"POSITIONAL_OR_KEYWORD", "VAR_POSITIONAL"}

\* C15: call_entrypoint passes the supplied positional arguments only if the
\* operation accepts positional parameters (fixed or variadic); an
\* operation that accepts none (no parameters, only keyword-only or
\* **kwargs parameters) is called with no positional argument.
C15_PositionalOnlyIfAccepted ==
    Called =>
        call_passed[1] = IF AcceptsPositional(call_params) THEN call_args ELSE <<>>

\* C15 for the operations without any parameter
C15_NoParameters == (Called /\ call_params = <<>>) => call_passed[1] = <<>>

\* C16: call_entrypoint passes exactly the supplied keyword arguments whose
\* names are declared parameters of the operation, in their order and with
\* their values, and drops the others; an operation that accepts **kwargs
\* is passed all of them.
C16_KeywordSubset ==
    Called =>
        LET passed == call_passed[2]
        IN /\ \A i \in 1..Len(passed) : \E j \in 1..Len(call_kwargs) : passed[i] = call_kwargs[j]
           /\ \A i, j \in 1..Len(passed) : i # j => passed[i][1] # passed[j][1]
           /\ Keys(passed) = IF HasVarKeyword(call_params) THEN Keys(call_kwargs)
                             ELSE Keys(call_kwargs) \cap ParamNames(call_params)

\* f(x, y=10) called with [1] and {y: 20, z: 20}: y is passed, z is dropped
C16_Witness ==
    /\ call_params = <<Positional("x"), Defaulted("y", "POSITIONAL_OR_KEYWORD")>>
    /\ call_args = <<1>>
    /\ call_kwargs = << <<"y", 20>>, <<"z", 20>> >>
    /\ call_passed = << <<1>>, << <<"y", 20>> >> >>
    /\ call_outcome = "return"

\* ---------------------------------------------------------------- entry detection claims
Detected == find_result # <<>>

\* statement j of `if` i is a guard's call of a bare name, direct or inside asyncio.run
IsGuardCall(i, j) == find_tree[i].guard /\ find_tree[i].body[j].kind \in {"call", "async"}

\* it is the first such statement of the source
IsFirstGuardCall(i, j) ==
    /\ IsGuardCall(i, j)
    /\ \A j2 \in 1..(j - 1) : ~IsGuardCall(i, j2)
    /\ \A i2 \in 1..(i - 1) : \A j2 \in 1..Len(find_tree[i2].body) : ~IsGuardCall(i2, j2)

HasGuardCall == \E i \in 1..Len(find_tree) : \E j \in 1..Len(find_tree[i].body) : IsGuardCall(i, j)

\* the default lookup: main if the module binds it to something callable
DefaultLookup ==
    IF "main" \in DOMAIN find_module.funcs
    THEN find_result[1] = [found |-> TRUE, name |-> "main"]
    ELSE ~find_result[1].found

\* C17 as stated: for a unit loaded by file path the entry operation is the
\* bare name called (directly or inside asyncio.run) by the guard's first
\* such call; the default lookup (main if callable, else nothing) is used
\* when there is no guard or no call in it, and always for a unit loaded by
\* importable identifier.
C17_FirstCallResolves ==
    Detected =>
        IF ~find_is_module /\ HasGuardCall
        THEN \A i \in 1..Len(find_tree) : \A j \in 1..Len(find_tree[i].body) :
                 IsFirstGuardCall(i, j) =>
                     find_result[1] = [found |-> TRUE, name |-> find_tree[i].body[j].name]
        ELSE DefaultLookup

\* C17, amended: the name of the guard's first such call is the result only
\* if the loaded module has an attribute of that name (callable or not);
\* when it has none the default lookup is used, as it is when there is no
\* guard, no such call, or the unit is loaded by importable identifier.
C17_Resolution ==
    Detected =>
        IF ~find_is_module /\ HasGuardCall
        THEN \A i \in 1..Len(find_tree) : \A j \in 1..Len(find_tree[i].body) :
                 IsFirstGuardCall(i, j) =>
                     IF HasAttr(find_module, find_tree[i].body[j].name)
                     THEN find_result[1] = [found |-> TRUE, name |-> find_tree[i].body[j].name]
                     ELSE DefaultLookup
        ELSE DefaultLookup

\* a guard whose body is print(...) then run(), in a unit defining run and
\* main: the detection answers main
C17_Witness ==
    /\ ~find_is_module
    /\ find_tree = <<IfNode(TRUE, FALSE, <<Stmt("call", "print"), Stmt("call", "run")>>)>>
    /\ DOMAIN find_module.funcs = {"main", "run"}
    /\ find_result = <<[found |-> TRUE, name |-> "main"]>>

\* ---------------------------------------------------------------- load_config claims
Loaded == load_result # <<>>

\* config_gen was called and returned
GenReturned ==
    /\ load_file.exists /\ load_file.has_gen /\ load_file.callable
    /\ load_result[1].does # "TypeError"

\* C18: when config_gen returns any iterable of Configs, a list or a tuple
\* as well as a generator or iterator, load_config returns a ConfigGenerator
\* that yields those Configs in order; only a result that is neither a
\* Config nor an iterable fails with ValueError.
C18_IterableWrapped ==
    (Loaded /\ GenReturned) =>
        /\ IsIterable(load_file.returns) =>
               /\ load_result[1].does = "ConfigGenerator"
               /\ PullAll(load_result[1].gen) = load_file.items
        /\ load_result[1].does = "ValueError" =>
               (load_file.returns # "Config" /\ ~IsIterable(load_file.returns))

\* C18 for generators and iterators
C18_IteratorWrapped ==
    (Loaded /\ GenReturned /\ load_file.returns = "generator") =>
        /\ load_result[1].does = "ConfigGenerator"
        /\ PullAll(load_result[1].gen) = load_file.items

\* C19: load_config resolves in a fixed order and fails at load time: a
\* missing file raises FileNotFoundError; config_gen is used if the file
\* defines it, called with worker_id exactly when a worker_id was supplied
\* and config_gen declares a parameter of that name and with no argument
\* otherwise, and ValueError is raised when it is not callable; CONFIG is
\* used only if config_gen is absent, with ValueError when it is not a
\* Config; ValueError is raised when neither symbol exists.
C19_ResolutionOrder ==
    Loaded =>
        LET r == load_result[1]
            f == load_file
        IN /\ ~f.exists => r.does = "FileNotFoundError"
           /\ (f.exists /\ f.has_gen) =>
                  /\ r.from = "config_gen"
                  /\ ~f.callable => (r.does = "ValueError" /\ r.call = <<>>)
                  /\ f.callable =>
                         r.call = IF load_wid # <<>> /\ "worker_id" \in ParamNames(f.params)
                                  THEN <<load_wid>> ELSE << <<>> >>
           /\ (f.exists /\ ~f.has_gen /\ f.has_CONFIG) =>
                  /\ r.from = "CONFIG"
                  /\ r.does = IF f.CONFIG_ok THEN "Config" ELSE "ValueError"
           /\ (f.exists /\ ~f.has_gen /\ ~f.has_CONFIG) => r.does = "ValueError"
           /\ r.from = "CONFIG" => ~f.has_gen

\* a file defining config_gen(worker_id) and CONFIG, loaded with worker_id 0:
\* config_gen is called with worker_id=0 and its Config is returned
C19_Witness ==
    /\ load_file = ConfigFile(TRUE, TRUE, TRUE, <<Positional("worker_id")>>, "Config", <<>>, TRUE, TRUE)
    /\ load_wid = <<0>>
    /\ load_result = <<LoadOutcome("Config", "config_gen", << <<0>> >>, ConfigGenerator(<<>>))>>

\* ---------------------------------------------------------------- Script claims
Constructed == desc_script # <<>> /\ desc_script[1].raised = ""

Rejected(e) == desc_script # <<>> /\ desc_script[1].raised = e

\* the errors of a descriptor: target not found, unsupported extension,
\* unresolvable importable identifier
DescriptorErrors == {"FileNotFoundError", "ValueError", "ModuleNotFoundError"}

\* a constructed Script's execution stopped on an error of its descriptor
DeferredDescriptorError ==
    /\ Constructed
    /\ desc_exec # <<>>
    /\ desc_exec[1].stage = "execution"
    /\ desc_exec[1].raised \in DescriptorErrors

\* the constructor's half: each kind of bad descriptor is rejected by
\* Script(...) with its own exception
C20_RejectedAtConstruction ==
    desc_script # <<>> =>
        /\ (~LooksLikeModule(desc_target) /\ desc_target.at = "missing")
              => Rejected("FileNotFoundError")
        /\ (~LooksLikeModule(desc_target) /\ desc_target.at # "missing"
                /\ desc_target.suffix # "py")
              => Rejected("ValueError")
        /\ (LooksLikeModule(desc_target) /\ desc_target.origin = "none")
              => Rejected("ModuleNotFoundError")

\* C20: Script(...) raises FileNotFoundError for a nonexistent file path,
\* ValueError for a file whose extension is not .py and ModuleNotFoundError
\* for an unresolvable importable identifier, and no Script that was
\* constructed fails when it is executed with a target-not-found or
\* unsupported-extension error.
C20_FailFast ==
    /\ C20_RejectedAtConstruction
    /\ ~DeferredDescriptorError

\* what does hold: a constructed Script executed by script.run(...) or by
\* ScriptExecutor in this process never stops on an error of its descriptor;
\* only a workflow's subprocess, which is handed str(script.path), does
C20_DeferredOnlyByWorkflowSubprocess ==
    DeferredDescriptorError =>
        /\ desc_script[1].is_module
        /\ desc_script[1].path.suffix # "py"
        /\ desc_exec[1].returncode = <<1>>

\* ---------------------------------------------------------------- cli claims
CliExited == cli_exit # <<>>

SomeExecutionFailed == \E i \in 1..Len(cli_ran) : cli_ran[i]

UsesChildProcesses ==
    \/ cli_cmd.func = "cmd_run" /\ cli_cmd.subprocess
    \/ cli_cmd.func = "cmd_workflow_parallel" /\ cli_cmd.mode = "subprocess"

\* C21: the CLI exits with status 1 whenever an execution it made failed,
\* the failure of a child process included, and with status 0 only when every
\* execution it was asked for was made and succeeded.
C21_ExitStatus ==
    CliExited =>
        /\ SomeExecutionFailed => cli_exit = <<1>>
        /\ cli_exit = <<0>> => (cli_ran = cli_tasks /\ ~SomeExecutionFailed)

\* what does hold: the same, for the commands that execute in this process
C21_InProcessExitStatus ==
    (CliExited /\ ~UsesChildProcesses) =>
        /\ SomeExecutionFailed => cli_exit = <<1>>
        /\ cli_exit = <<0>> => (cli_ran = cli_tasks /\ ~SomeExecutionFailed)

\* ---------------------------------------------------------------- worker identity
\* C22: in the subprocess strategy of Parallel.run the T tasks, one child
\* process each, carry the worker identities 0..T-1 in task-expansion order
\* (so pairwise distinct), whatever the bound N; a subprocess run of
\* Sequential launches every execution with identity 0.
C22_WorkerIdentities ==
    (par_sub /\ par_pc # "idle") =>
        /\ TaskKeys = ListOrder(par_scripts, par_gens0, 1)
        /\ \A k \in 1..Len(par_tasks) : par_tasks[k].wid = k - 1
        /\ \A j, k \in 1..Len(par_tasks) :
               j # k => par_tasks[j].wid # par_tasks[k].wid
        /\ \A k \in 1..Len(par_tasks) : SeqWorkerId(TaskKeys[k]) = 0

\* a subprocess run with bound 1 over two scripts, four tasks: the last
\* one, identity 3, is running after the three before it have ended
C22_Witness ==
    /\ par_sub
    /\ par_N = 1
    /\ Len(par_scripts) = 2
    /\ Len(par_tasks) = 4
    /\ par_tasks[4].state = "running"
    /\ par_tasks[4].wid = 3
    /\ par_tasks[1].wid = 0

\* ---------------------------------------------------------------- Parallel termination
\* task k was handed to a worker, which called the task's function
TaskStarted(k) ==
    /\ k <= Len(par_tasks)
    /\ par_tasks[k].state \in {"running", "exit0", "exit1", "spawn_error"}

\* C23: under fair scheduling with every task terminating, in both
\* strategies, every task of Parallel.run is eventually started and run()
\* eventually ends, and it never ends while a task has not finished (so a
\* task that never terminates keeps run() from returning).
C23_ReturnsIffAllTerminate ==
    /\ \A k \in 1..MaxTasks : (k <= Len(par_tasks)) ~> TaskStarted(k)
    /\ (par_pc # "idle") ~> ParEnded
    /\ [](ParEnded => \A k \in 1..Len(par_tasks) : TaskDone(par_tasks[k]))

\* what does hold: the same for the subprocess strategy
C23_SubprocessReturnsIffAllTerminate ==
    /\ \A k \in 1..MaxTasks : (par_sub /\ k <= Len(par_tasks)) ~> TaskStarted(k)
    /\ (par_sub /\ par_pc # "idle") ~> ParEnded
    /\ [](ParEnded => \A k \in 1..Len(par_tasks) : TaskDone(par_tasks[k]))

\* ---------------------------------------------------------------- nested guards
\* no `if __name__ == "__main__"` of the source is a top-level statement
NoTopLevelGuard == \A i \in 1..Len(find_tree) : find_tree[i].guard => find_tree[i].nested

\* C24: only a top-level conditional is treated as the entry guard: when
\* every `__name__ == "__main__"` conditional of the unit is nested in a
\* function body, a class body or another block, none of them determines the
\* entry operation and the default lookup is used.
C24_TopLevelOnly == (Detected /\ NoTopLevelGuard) => DefaultLookup

\* ---------------------------------------------------------------- type mismatch
\* what the i-th pull gives when the i-1 pulls before it did not end the source
PullOf(i) ==
    IF i > Len(gen.items) THEN "StopIteration"
    ELSE IF IsConfig(gen.items[i]) THEN gen.items[i]
    ELSE "TypeError"

\* C25: a pull that gets a value that is not a Config from the producer
\* raises TypeError and does not end the source: the value is consumed,
\* `exhausted` stays false, and the next pull gives the producer's next value
\* (or raises StopIteration and sets `exhausted` if there is none).
C25_TypeErrorDoesNotEnd ==
    \A i \in 1..Len(gen_log) :
        /\ (i <= Len(gen.items) /\ ~IsConfig(gen.items[i])) => gen_log[i] = "TypeError"
        /\ gen_log[i] = "TypeError" =>
               /\ i <= Len(gen.items) /\ ~IsConfig(gen.items[i])
               /\ i = Len(gen_log) => (~gen.exhausted /\ gen.pos = i)
               /\ i < Len(gen_log) =>
                      /\ gen_log[i + 1] = PullOf(i + 1)
                      /\ (i + 1 = Len(gen_log) /\ i = Len(gen.items)) => gen.exhausted

\* c1, then a value that is not a Config, then c2, then the end
C25_Witness ==
    /\ gen.items = <<"c1", NotAConfig, "c2">>
    /\ gen_log = <<"c1", "TypeError", "c2", "StopIteration">>
    /\ gen.exhausted

\* ---------------------------------------------------------------- entry failures
\* the exception the unit's entry operation raises
EntryFailure(u) == IF u = AsyncRaiseScript THEN "ValueError:Async error" ELSE "RuntimeError:Oops"

\* execute reached the call of the unit's main: the loaded module still
\* binds main to the unit's function, no ConfigGenerator is in effect and no
\* override was rejected or replaces main
MainInvoked ==
    /\ Executed
    /\ ex_loaded.funcs = script.unit.funcs
    /\ "main" \notin DOMAIN ex_loaded.ns
    /\ script.entrypoint \in {"", "main"}
    /\ ex_config.kind # "ConfigGenerator"
    /\ NoProtectedOverride
    /\ NotOverridden("main")

\* C26: a failure raised by the invoked entry operation, synchronous or
\* asynchronous, reaches the caller of execute unchanged: execute raises that
\* same exception, returns no result, and has called the operation once.
C26_FailurePropagates ==
    (MainInvoked /\ script.unit \in RaisingUnits) =>
        /\ Raised(EntryFailure(script.unit))
        /\ ex_module.calls = ex_loaded.calls + 1

\* the coroutine function main of the asynchronous unit raised once, with
\* arguments and keyword arguments in the Config in effect
C26_Witness ==
    /\ script.unit = AsyncRaiseScript
    /\ script.entrypoint = ""
    /\ ex_config = Config(<<>>, <<5>>, << <<"y", 20>> >>)
    /\ Raised("ValueError:Async error")
    /\ ex_module.calls = 1

\* ---------------------------------------------------------------- entry name across processes
\* the execution resolved an entry operation
EntryResolved ==
    /\ Constructed
    /\ desc_exec # <<>>
    /\ desc_exec[1].stage = "execution"
    /\ desc_exec[1].raised = ""

\* C27: an explicit entry name, given as the entrypoint argument or as a
\* `:symbol` suffix, is respected on every execution path: a child process
\* launched for the Script by Script.run, Sequential or Parallel invokes the
\* entry operation an in-process execute of that Script invokes.
C27_SameEntryInChild ==
    (EntryResolved /\ desc_script[1].entrypoint # "") =>
        desc_exec[1].entry = EntryInvoked(desc_script[1].entrypoint)

\* what does hold: the same for the executions made in this process
C27_SameEntryInProcess ==
    (EntryResolved /\ desc_script[1].entrypoint # "" /\ desc_exec[1].returncode = <<>>) =>
        desc_exec[1].entry = EntryInvoked(desc_script[1].entrypoint)

\* ---------------------------------------------------------------- single-use sources
\* script i holds the ConfigGenerator object g
Holds(i, g) == seq_scripts[i].cfg = "ConfigGenerator" /\ seq_scripts[i].gen = g

\* the executions of this run() made with a Config pulled from g, in order
StartedFrom(g) == SelectSeq(seq_started, LAMBDA e : Holds(e.script, g))

\* the first script of the list that holds g
FirstHolder(i, g) == Holds(i, g) /\ \A j \in 1..(i - 1) : ~Holds(j, g)

FinishedFrom(g) == SelectSeq(seq_finished, LAMBDA f : Holds(f.script, g))

\* the number of Configs this run() has pulled from g
Pulled(g) == seq_gens[g].pos - seq_gens0[g].pos

\* at most one Config of each source is pulled ahead of the completed executions
PulledAtMostOneAhead == \A g \in GenIds : Pulled(g) <= Len(FinishedFrom(g)) + 1

\* once an execution made from g has failed, g has not been pulled again in
\* this run(): the failed execution is the last one pulled, and the source
\* is not marked exhausted
NotPulledAfterFailure ==
    \A g \in GenIds : \A k \in 1..Len(FinishedFrom(g)) :
        ~FinishedFrom(g)[k].ok =>
            /\ Pulled(g) = k
            /\ ~seq_gens[g].exhausted

\* C29: Sequential.run pulls lazily: at any time the number of Configs
\* pulled from a source exceeds the number of completed executions by at
\* most one, and when an execution fails the source is not pulled again
\* (`exhausted` stays false, the remaining Configs stay unconsumed).
C29_LazyPull == PulledAtMostOneAhead /\ NotPulledAfterFailure

\* the same, with the failure part restricted to in-process execution
C29_InProcessLazyPull == PulledAtMostOneAhead /\ (~seq_sub => NotPulledAfterFailure)

\* ---------------------------------------------------------------- module registry
\* the unique names of disposable contexts
Disposable(name) == Len(name) = 3 /\ name[1] = "_kohaku_script_"

DisposableNames(sysm) == {n \in DOMAIN sysm : Disposable(n)}

\* the registry but for what the unit's own import statements added to it
LoaderLeft(sysm) == [n \in (DOMAIN sysm) \cap (DOMAIN lf_sys0) |-> sysm[n]]

\* C30: loading a file-based unit leaves sys.modules unchanged: the
\* disposable context is registered under its unique name only while the
\* unit's top-level code runs and is removed when loading ends, whether it
\* succeeded or raised (what remains is the registry as it was, plus at most
\* the modules the unit's own code imported); executor.module is None before
\* the first execute, and refers to the most recently loaded context after
\* a load that succeeded and only then.
C30_RegistryUnchanged ==
    /\ lf_pc = "exec_module" =>
           /\ DisposableNames(lf_sys) = {FileModuleName(LfScript(lf_content))}
           /\ lf_sys[FileModuleName(LfScript(lf_content))] = lf_context
           /\ Without(lf_sys, FileModuleName(LfScript(lf_content))) = lf_sys0
    /\ lf_pc = "idle" =>
           /\ DisposableNames(lf_sys) = {}
           /\ LoaderLeft(lf_sys) = lf_sys0
           /\ (DOMAIN lf_sys) \ (DOMAIN lf_sys0) \subseteq {<<u.name>> : u \in lf_content.imports}
    /\ lf_ended = "none" => lf_module = <<>>
    /\ lf_pc = "idle" /\ lf_ended = "ok" => lf_module = <<lf_context>>
    /\ lf_pc = "idle" /\ lf_ended = "raised" =>
           \/ lf_module = <<>>
           \/ lf_module[1].load < lf_context.load

\* a load that raised after an earlier load of the same executor succeeded:
\* the registry is back as it was and module is still the earlier context
C30_Witness ==
    /\ lf_pc = "idle"
    /\ lf_ended = "raised"
    /\ lf_content.raises = ForcedImportError
    /\ lf_module # <<>>
    /\ lf_sys = lf_sys0
    /\ lf_loads >= 2

====
